---- MODULE Spec2Model ----
(***************************************************************************)
(* Endgame OS memory pipeline: the SQLite graph store (canonical nodes and *)
(* edges, the staging mirror), the handlers that write to it, the healers  *)
(* and the graph projection, as state machines over small input sets.      *)
(*                                                                         *)
(* Tables are modelled the way SQLite keeps them: `nodes` and              *)
(* `staging_nodes` have PRIMARY KEY (id), so they are functions from ids   *)
(* to rows; `edges` and `staging_edges` have PRIMARY KEY (source, target,  *)
(* relation, user_id), so they are sets of such records. created_at,       *)
(* time_metadata and strategic_role are not modelled (no handler below     *)
(* branches on them). Foreign keys are declared in the schema but never    *)
(* enforced: no connection issues PRAGMA foreign_keys=ON.                   *)
(***************************************************************************)
EXTENDS Integers, Sequences, FiniteSets, TLC

VARIABLES
    nodes,          \* table nodes: id -> row
    edges,          \* table edges: set of [source, target, relation, user_id]
    staging_nodes,  \* table staging_nodes: id -> row
    staging_edges,  \* table staging_edges
    hash_seed,      \* the process's string-hash order: the order list(set(..)) yields
    call,           \* the last handler that ran: its name, arguments and outcome
    nops,           \* number of write handlers run so far
    lock,           \* GraphStore._lock: the task holding it, if any
    db_writer,      \* the task whose connection holds SQLite's write transaction
    pc,             \* each task's position in the handler it runs
    chunker,        \* the call of FileProcessor._chunk_text in progress
    vectors,        \* the vector store: its three collections
    experiences,    \* table experiences: id -> row
    loop,           \* the event loop: the coroutines scheduled and not finished
    turns,          \* the chat turns answered so far
    tasks_db,       \* _tasks_db of the memory API: task_id -> task status
    jobs,            \* the background training jobs: task_id -> position
    edge_rows,      \* table edges with the columns properties and created_at
    tables          \* the tables that exist in brain.db

\* The state of the concurrent tasks
procVars == <<lock, db_writer, pc>>

\* The variables the sequential handlers leave alone
\* The state of the chat service
chatVars == <<vectors, experiences, loop, turns>>

\* The state of the training tasks
trainVars == <<tasks_db, jobs>>

\* The schema and the full rows of the edges table
storeVars == <<edge_rows, tables>>

otherVars == <<procVars, chunker, chatVars, trainVars, storeVars>>

vars == <<nodes, edges, staging_nodes, staging_edges, hash_seed, call, nops, otherVars>>

----------------------------------------------------------------------------
(* Bounds of the model *)

MaxOps == 3        \* write handlers per behaviour
MaxList == 2       \* length of a dossier list
MaxTextLen == 5    \* characters of a text handed to the chunker
MaxChunkSize == 4  \* largest configured chunk_size
MaxChunks == 4     \* chunks after which the model leaves a chunker run
MaxTurns == 2      \* chat turns answered in one behaviour

(* Program constants *)

ScoreCore == 10     \* alignment_score 1.0 (in tenths) for Vision/Self
ScoreNeutral == 5   \* alignment_score 0.5 (in tenths) otherwise
ScoreUnset == 0     \* the column default of nodes.alignment_score

----------------------------------------------------------------------------
(* Universe of inputs *)

Users == {"u1", "u2"}

\* hashlib.md5(name).hexdigest()[:16] for the names of the model
Md5Hex16(text) ==
    CASE text = "P"  -> "44c29edb103a2872"
      [] text = "Z"  -> "21c2e59531c87101"
      [] text = "u1" -> "e4774cdda0793f86"
      [] text = "u2" -> "270c1b084f3f146e"
      [] OTHER       -> "ad6e7652b1bdfb38"

_get_stable_id(text) == "con_" \o Md5Hex16(text)

VisionId(user_id) == "vision_" \o user_id

\* Optional values: None is <<>>, a value x is <<x>>.
None == <<>>
Some(x) == <<x>>

\* A JSON object: a function from keys to values.
EmptyJson == [k \in {} |-> None]

JsonSet(obj, key, val) ==
    [k \in (DOMAIN obj) \cup {key} |-> IF k = key THEN val ELSE obj[k]]

\* Table helpers
EmptyTable == [i \in {} |-> None]

Put(tbl, id, row) ==
    [i \in (DOMAIN tbl) \cup {id} |-> IF i = id THEN row ELSE tbl[i]]

Del(tbl, ids) == [i \in (DOMAIN tbl) \ ids |-> tbl[i]]

SeqToSet(s) == {s[i] : i \in 1..Len(s)}

----------------------------------------------------------------------------
(* Rows *)

NodeRow(user_id, type, name, content, attributes, status, energy_impact, alignment_score, source_file) ==
    [user_id |-> user_id, type |-> type, name |-> name, content |-> content,
     attributes |-> attributes, status |-> status,
     energy_impact |-> energy_impact, alignment_score |-> alignment_score,
     source_file |-> source_file]

StagingRow(user_id, type, name, content, attributes, source_file) ==
    [user_id |-> user_id, type |-> type, name |-> name, content |-> content,
     attributes |-> attributes, status |-> "pending",
     source_file |-> source_file]

Edge(source, target, relation, user_id) ==
    [source |-> source, target |-> target, relation |-> relation,
     user_id |-> user_id]

----------------------------------------------------------------------------
(* GraphStore: generic writes *)

\* _upsert_node: INSERT OR REPLACE of the whole row under the normalised id.
_upsert_node(tbl, user_id, node_id, node_type, name, content, status, energy_impact, source_file, kwargs) ==
    LET nid == IF node_type = "Vision" THEN VisionId(user_id)
               ELSE IF node_type = "Self" THEN user_id
               ELSE node_id
        default_score == IF node_type \in {"Vision", "Self"}
                         THEN ScoreCore ELSE ScoreNeutral
        alignment_score == IF "alignment_score" \in DOMAIN kwargs
                           THEN kwargs["alignment_score"] ELSE default_score
        attributes == [k \in (DOMAIN kwargs) \ {"alignment_score"} |-> kwargs[k]]
    IN  Put(tbl, nid, NodeRow(user_id, node_type, name, content, attributes,
                              status, energy_impact, alignment_score,
                              source_file))

\* _upsert_edge: INSERT OR IGNORE on the composite key.
_upsert_edge(etbl, user_id, source, target, relation) ==
    etbl \cup {Edge(source, target, relation, user_id)}

----------------------------------------------------------------------------
(* Observation of the last handler *)

\* args: the handler's arguments; result: what it returned to its caller.
Call(op, user_id, ok, args, result) ==
    [op |-> op, user_id |-> user_id, ok |-> ok, args |-> args,
     result |-> result]

NoCall == Call("init", "", TRUE, None, None)

----------------------------------------------------------------------------
(* sync_user_to_self_node *)

NoVision == [present |-> FALSE, description |-> "", key_milestones |-> <<>>]

VisionData ==
    {NoVision,
     [present |-> TRUE, description |-> "", key_milestones |-> <<>>],
     [present |-> TRUE, description |-> "d", key_milestones |-> <<"m">>]}

GoalId(user_id, i) ==
    "goal_" \o user_id \o (IF i = 0 THEN "_0" ELSE "_1")

RECURSIVE SyncMilestones(_, _, _, _)
SyncMilestones(tbl, user_id, milestones, i) ==
    IF i >= Len(milestones) THEN tbl
    ELSE SyncMilestones(
            _upsert_node(tbl, user_id, GoalId(user_id, i), "Goal",
                         milestones[i + 1], milestones[i + 1], "confirmed",
                         None, None, EmptyJson),
            user_id, milestones, i + 1)

SyncNodes(tbl, user_id, vision_data) ==
    LET t1 == _upsert_node(tbl, user_id, user_id, "Self", "Self",
                           "The Owner of this Endgame OS: Self", "confirmed",
                           None, None, [attributes |-> "persona"])
        t2 == _upsert_node(t1, user_id, VisionId(user_id), "Vision",
                           "My Vision", vision_data.description, "confirmed",
                           None, None, [attributes |-> "vision"])
    IN  IF vision_data.present
        THEN SyncMilestones(t2, user_id, vision_data.key_milestones, 0)
        ELSE t1

SyncEdges(etbl, user_id, vision_data) ==
    IF vision_data.present
    THEN etbl \cup {Edge(user_id, VisionId(user_id), "OWNS", user_id)}
              \cup {Edge(VisionId(user_id), GoalId(user_id, i - 1), "HAS_GOAL",
                         user_id) : i \in 1..Len(vision_data.key_milestones)}
    ELSE etbl

SyncUserToSelfNode(user_id, vision_data) ==
    /\ nops < MaxOps
    /\ nodes' = SyncNodes(nodes, user_id, vision_data)
    /\ edges' = SyncEdges(edges, user_id, vision_data)
    /\ call' = Call("sync_user_to_self_node", user_id, TRUE, vision_data, None)
    /\ nops' = nops + 1
    /\ UNCHANGED <<staging_nodes, staging_edges, hash_seed, otherVars>>

----------------------------------------------------------------------------
(* Extraction output handed to the batch writers *)

DossierItems == {"a", "b"}

RECURSIVE SeqsUpTo(_, _)
SeqsUpTo(S, n) ==
    IF n = 0 THEN {<<>>}
    ELSE LET shorter == SeqsUpTo(S, n - 1)
         IN  shorter \cup {Append(s, x) : s \in shorter, x \in S}

\* A dossier value is a JSON list of strings or a JSON string.
JList(items) == [kind |-> "list", items |-> items]
JStr(text) == [kind |-> "str", items |-> <<text>>]

DossierValues ==
    {JList(l) : l \in SeqsUpTo(DossierItems, MaxList) \ {<<>>}} \cup {JStr("s")}

Dossiers == {EmptyJson} \cup {[k \in {"tags"} |-> v] : v \in DossierValues}

Entity(name, type, content, dossier, status, energy_impact) ==
    [name |-> name, type |-> type, content |-> content, dossier |-> dossier,
     status |-> status, energy_impact |-> energy_impact]

\* What the extractor can return for user_id. An entity named after the user
\* has its type coerced to Self (NeuralProcessor.extract_structured_memory).
Entities(user_id) ==
    {Entity("P", "Project", "", d, "confirmed", 0) : d \in Dossiers}
    \cup {Entity("P", "Person", "c", EmptyJson, "pending", 1),
          Entity(user_id, "Self", "", EmptyJson, "confirmed", 0),
          Entity("V", "Vision", "v", EmptyJson, "confirmed", 0),
          Entity("", "Concept", "c", EmptyJson, "confirmed", 0)}

\* An entity whose alignment_score the extractor returned as a JSON array
WithArrayScore(e) ==
    [k \in (DOMAIN e) \cup {"alignment_score"} |->
        IF k = "alignment_score" THEN JList(<<"a">>) ELSE e[k]]

EntityBatches(user_id) ==
    {<<e>> : e \in Entities(user_id)}
    \cup {<<Entity("", "Concept", "c", EmptyJson, "confirmed", 0),
            Entity("Z", "Person", "c", EmptyJson, "pending", 1)>>,
          <<Entity("P", "Project", "c", EmptyJson, "confirmed", 0),
            WithArrayScore(Entity("B", "Person", "", EmptyJson, "pending", 1)),
            Entity("Z", "Person", "c", EmptyJson, "pending", 1)>>}

Relation(source, target, relation) ==
    [source |-> source, target |-> target, relation |-> relation]

RelationBatches(user_id) ==
    {<<Relation("P", "Z", "SUPPORTS")>>,
     <<Relation(user_id, "P", "OWNS")>>,
     <<Relation("P", "", "SUPPORTS"), Relation("Z", "P", "KNOWS")>>}

----------------------------------------------------------------------------
(* upsert_entities_batch *)

\* list(set(items)): the distinct items in the order of the process's hash seed
ListOfSet(items) == SelectSeq(hash_seed, LAMBDA x : x \in SeqToSet(items))

\* the dossier merge of upsert_entities_batch, for one incoming key
MergeDossierKey(cur, k, v) ==
    IF v.kind = "list" /\ k \in DOMAIN cur /\ cur[k].kind = "list"
    THEN JsonSet(cur, k, JList(ListOfSet(cur[k].items \o v.items)))
    ELSE JsonSet(cur, k, v)

\* One dossier key is modelled ("tags"), so the loop runs at most once.
MergeDossier(cur, new_dossier) ==
    IF "tags" \in DOMAIN new_dossier
    THEN MergeDossierKey(cur, "tags", new_dossier["tags"])
    ELSE cur

EntityNodeId(user_id, e) ==
    IF e.type = "Vision" THEN VisionId(user_id)
    ELSE IF e.type = "Self" THEN user_id
    ELSE _get_stable_id(e.name)

\* One row of the batch: SELECT attributes WHERE id AND user_id, merge, then
\* INSERT .. ON CONFLICT(id) DO UPDATE SET type, content, attributes, status,
\* energy_impact, alignment_score.
UpsertEntity(tbl, user_id, e) ==
    IF e.name = "" THEN tbl
    ELSE
    LET node_id == EntityNodeId(user_id, e)
        owned == node_id \in DOMAIN tbl /\ tbl[node_id].user_id = user_id
        current_attrs == IF owned THEN tbl[node_id].attributes ELSE EmptyJson
        with_dossier == IF "dossier" \in DOMAIN current_attrs
                        THEN current_attrs
                        ELSE JsonSet(current_attrs, "dossier", EmptyJson)
        attrs == JsonSet(with_dossier, "dossier",
                         MergeDossier(with_dossier["dossier"], e.dossier))
    IN  IF node_id \in DOMAIN tbl
        THEN Put(tbl, node_id,
                 [tbl[node_id] EXCEPT
                    !.type = e.type,
                    !.content = IF e.content # "" THEN e.content ELSE @,
                    !.attributes = attrs,
                    !.status = e.status,
                    !.energy_impact = Some(e.energy_impact),
                    !.alignment_score = ScoreNeutral])
        ELSE Put(tbl, node_id,
                 NodeRow(user_id, e.type, e.name, e.content, attrs, e.status,
                         Some(e.energy_impact), ScoreNeutral, None))

RECURSIVE UpsertEntities(_, _, _)
UpsertEntities(tbl, user_id, entities) ==
    IF entities = <<>> THEN tbl
    ELSE UpsertEntities(UpsertEntity(tbl, user_id, Head(entities)), user_id,
                        Tail(entities))

\* sqlite3 binds None, numbers and text; a list or a dict among the
\* parameters of the INSERT raises.
EntityBinds(e) ==
    "alignment_score" \in DOMAIN e => e["alignment_score"].kind # "list"

\* A row with no name is skipped before anything is bound. An exception in
\* any row leaves the `with` block: the connection rolls the whole batch back
\* and the handler returns False.
UpsertEntitiesBatch(user_id, entities) ==
    /\ nops < MaxOps
    /\ IF \A i \in 1..Len(entities) :
             entities[i].name # "" => EntityBinds(entities[i])
       THEN /\ nodes' = UpsertEntities(nodes, user_id, entities)
            /\ call' = Call("upsert_entities_batch", user_id, TRUE, entities,
                            None)
       ELSE /\ nodes' = nodes
            /\ call' = Call("upsert_entities_batch", user_id, FALSE, entities,
                            None)
    /\ nops' = nops + 1
    /\ UNCHANGED <<edges, staging_nodes, staging_edges, hash_seed, otherVars>>

----------------------------------------------------------------------------
(* add_concepts_batch, add_log, add_person *)

\* INSERT OR REPLACE INTO nodes (id, user_id, type, name, content, attributes,
\* alignment_score): the columns left out take the schema's defaults.
RECURSIVE AddConcepts(_, _, _)
AddConcepts(tbl, user_id, concepts) ==
    IF concepts = <<>> THEN tbl
    ELSE AddConcepts(
            Put(tbl, _get_stable_id(Head(concepts)),
                NodeRow(user_id, "Concept", Head(concepts), "",
                        [vector |-> "vec"], "confirmed", None, ScoreNeutral,
                        None)),
            user_id, Tail(concepts))

\* process_graph_task derives each concept id from the entity's name.
ConceptBatches(user_id) == {<<"P">>, <<user_id>>}

AddConceptsBatch(user_id, concepts) ==
    /\ nops < MaxOps
    /\ nodes' = AddConcepts(nodes, user_id, concepts)
    /\ call' = Call("add_concepts_batch", user_id, TRUE, concepts, None)
    /\ nops' = nops + 1
    /\ UNCHANGED <<edges, staging_nodes, staging_edges, hash_seed, otherVars>>

\* The row a single-node writer hands to _upsert_node
Incoming(id, content, status, energy_impact, alignment_score) ==
    [id |-> id, content |-> content, status |-> status,
     energy_impact |-> energy_impact, alignment_score |-> alignment_score]

AddLog(user_id, log_id, content) ==
    /\ nops < MaxOps
    /\ nodes' = _upsert_node(nodes, user_id, log_id, "Log", "chat", content,
                             "confirmed", None, None, [timestamp |-> "t"])
    /\ call' = Call("add_log", user_id, TRUE,
                    Incoming(log_id, content, "confirmed", None, ScoreNeutral),
                    None)
    /\ nops' = nops + 1
    /\ UNCHANGED <<edges, staging_nodes, staging_edges, hash_seed, otherVars>>

\* add_person: the content parameter of _upsert_node keeps its default "".
AddPerson(user_id, name, role, energy_impact) ==
    /\ nops < MaxOps
    /\ nodes' = _upsert_node(nodes, user_id, _get_stable_id(name), "Person",
                             name, "", "confirmed", Some(energy_impact), None,
                             EmptyJson)
    /\ call' = Call("add_person", user_id, TRUE,
                    Incoming(_get_stable_id(name), "", "confirmed",
                             Some(energy_impact), ScoreNeutral),
                    name)
    /\ nops' = nops + 1
    /\ UNCHANGED <<edges, staging_nodes, staging_edges, hash_seed, otherVars>>

----------------------------------------------------------------------------
(* Edge writers: upsert_relations_batch, create_edge *)

\* Endpoints are always hashed from the names, also a name that is a user id.
RelationEdges(user_id, relations) ==
    {Edge(_get_stable_id(relations[i].source),
          _get_stable_id(relations[i].target),
          relations[i].relation, user_id) :
        i \in {j \in 1..Len(relations) :
                 /\ relations[j].source # ""
                 /\ relations[j].target # ""
                 /\ relations[j].relation # ""}}

UpsertRelationsBatch(user_id, relations) ==
    /\ nops < MaxOps
    /\ edges' = edges \cup RelationEdges(user_id, relations)
    /\ call' = Call("upsert_relations_batch", user_id, TRUE, relations,
                    RelationEdges(user_id, relations))
    /\ nops' = nops + 1
    /\ UNCHANGED <<nodes, staging_nodes, staging_edges, hash_seed, otherVars>>

\* Node ids a client names in POST /edges: its own Self node, a node of its
\* own, a node id that another user may hold, the other user's Self node.
EdgeSources(user_id) == {"", user_id, _get_stable_id("P")}

EdgeTargets(user_id) == {_get_stable_id("Z")} \cup (Users \ {user_id})

\* POST /edges: 400 without source or target, else INSERT OR REPLACE.
CreateEdge(user_id, source, target, relation) ==
    /\ nops < MaxOps
    /\ IF source = "" \/ target = ""
       THEN /\ edges' = edges
            /\ call' = Call("create_edge", user_id, FALSE,
                            Edge(source, target, relation, user_id), None)
       ELSE /\ edges' = (edges \ {Edge(source, target, relation, user_id)})
                          \cup {Edge(source, target, relation, user_id)}
            /\ call' = Call("create_edge", user_id, TRUE,
                            Edge(source, target, relation, user_id), None)
    /\ nops' = nops + 1
    /\ UNCHANGED <<nodes, staging_nodes, staging_edges, hash_seed, otherVars>>

----------------------------------------------------------------------------
(* Curating the canonical graph: confirm_memory, delete_node *)

\* DELETE FROM edges WHERE (source = ? OR target = ?) AND user_id = ?
DeleteEdgesOf(etbl, user_id, node_id) ==
    {e \in etbl : ~(e.user_id = user_id /\ node_id \in {e.source, e.target})}

\* DELETE FROM nodes WHERE id = ? AND user_id = ?
DeleteNodeRow(tbl, user_id, node_id) ==
    IF node_id \in DOMAIN tbl /\ tbl[node_id].user_id = user_id
    THEN Del(tbl, {node_id}) ELSE tbl

\* The node ids a request of user_id can name
NodeIds(user_id) ==
    {user_id, VisionId(user_id), _get_stable_id("P"), "nobody"}

\* DELETE /nodes/{node_id}
DeleteNode(user_id, node_id) ==
    /\ nops < MaxOps
    /\ edges' = DeleteEdgesOf(edges, user_id, node_id)
    /\ nodes' = DeleteNodeRow(nodes, user_id, node_id)
    /\ call' = Call("delete_node", user_id, TRUE, node_id, None)
    /\ nops' = nops + 1
    /\ UNCHANGED <<staging_nodes, staging_edges, hash_seed, otherVars>>

\* POST /confirm/{node_id}: confirm sets the status, reject deletes the node
\* and its edges
ConfirmMemory(user_id, node_id, action) ==
    /\ nops < MaxOps
    /\ IF action = "confirm"
       THEN /\ nodes' = IF node_id \in DOMAIN nodes
                           /\ nodes[node_id].user_id = user_id
                        THEN [nodes EXCEPT ![node_id].status = "confirmed"]
                        ELSE nodes
            /\ edges' = edges
       ELSE /\ edges' = DeleteEdgesOf(edges, user_id, node_id)
            /\ nodes' = DeleteNodeRow(nodes, user_id, node_id)
    /\ call' = Call("confirm_memory", user_id, TRUE,
                    [node_id |-> node_id, action |-> action], None)
    /\ nops' = nops + 1
    /\ UNCHANGED <<staging_nodes, staging_edges, hash_seed, otherVars>>

----------------------------------------------------------------------------
(* MemoryConsolidator: merging the nodes of a cluster *)

\* The candidates of consolidate_memory: get_nodes_by_type(user_id, "Concept")
ConceptIds(user_id) ==
    {i \in DOMAIN nodes :
        nodes[i].user_id = user_id /\ nodes[i].type = "Concept"}

\* attrs.get('dossier', {})
DossierOf(attrs) ==
    IF "dossier" \in DOMAIN attrs THEN attrs["dossier"] ELSE EmptyJson

\* The deep merge of one slave's dossier into the master's: a key the master
\* lacks is copied, two lists are joined through list(set(..)). One dossier
\* key is modelled ("tags").
MergeSlaveDossier(master_dossier, slave_dossier) ==
    IF "tags" \notin DOMAIN slave_dossier THEN master_dossier
    ELSE IF "tags" \notin DOMAIN master_dossier
    THEN JsonSet(master_dossier, "tags", slave_dossier["tags"])
    ELSE IF master_dossier["tags"].kind = "list"
            /\ slave_dossier["tags"].kind = "list"
    THEN JsonSet(master_dossier, "tags",
                 JList(ListOfSet(master_dossier["tags"].items
                                   \o slave_dossier["tags"].items)))
    ELSE master_dossier

RECURSIVE MergedDossier(_, _, _)
MergedDossier(tbl, master_dossier, slave_ids) ==
    IF slave_ids = <<>> THEN master_dossier
    ELSE MergedDossier(
            tbl,
            IF Head(slave_ids) \in DOMAIN tbl
            THEN MergeSlaveDossier(master_dossier,
                                   DossierOf(tbl[Head(slave_ids)].attributes))
            ELSE master_dossier,
            Tail(slave_ids))

\* UPDATE OR IGNORE edges SET col = master_id WHERE col = sid: the statement
\* names no user_id, and a row whose new key is taken stays as it is
RedirectOrIgnore(etbl, col, sid, master_id) ==
    LET moved == {e \in etbl : /\ e[col] = sid
                               /\ [e EXCEPT ![col] = master_id] \notin etbl}
    IN  (etbl \ moved) \cup {[e EXCEPT ![col] = master_id] : e \in moved}

\* The loop over the slaves: redirect the incoming and the outgoing edges,
\* DELETE FROM edges WHERE source = sid OR target = sid, DELETE FROM nodes
\* WHERE id = sid
RECURSIVE MergeSlaves(_, _, _)
MergeSlaves(db, master_id, slave_ids) ==
    IF slave_ids = <<>> THEN db
    ELSE LET sid == Head(slave_ids)
             incoming == RedirectOrIgnore(db.edges, "target", sid, master_id)
             outgoing == RedirectOrIgnore(incoming, "source", sid, master_id)
         IN  MergeSlaves(
                [nodes |-> Del(db.nodes, {sid}),
                 edges |-> {e \in outgoing : e.source # sid /\ e.target # sid}],
                master_id, Tail(slave_ids))

\* _merge_graph_nodes(user_id, master_id, slave_ids, new_master_name), as
\* consolidate_memory calls it for a cluster of the user's Concept nodes
MergeGraphNodes(user_id, master_id, slave_ids, new_master_name) ==
    LET attrs == JsonSet(nodes[master_id].attributes, "dossier",
                         MergedDossier(nodes,
                                       DossierOf(nodes[master_id].attributes),
                                       slave_ids))
        updated == Put(nodes, master_id,
                       [nodes[master_id] EXCEPT
                          !.attributes = attrs,
                          !.name = IF new_master_name # ""
                                   THEN new_master_name ELSE @])
        db == MergeSlaves([nodes |-> updated, edges |-> edges], master_id,
                          slave_ids)
    IN  /\ nops < MaxOps
        /\ IF master_id \in DOMAIN nodes
           THEN /\ nodes' = db.nodes
                /\ edges' = db.edges
           ELSE UNCHANGED <<nodes, edges>>
        /\ call' = Call("_merge_graph_nodes", user_id,
                        master_id \in DOMAIN nodes,
                        [master_id |-> master_id, slave_ids |-> slave_ids],
                        None)
        /\ nops' = nops + 1
        /\ UNCHANGED <<staging_nodes, staging_edges, hash_seed, otherVars>>

----------------------------------------------------------------------------
(* IngestionService.process_graph_task: the background extraction of a file *)

\* What the extractor returns for one informative chunk
StructuredData(user_id) ==
    {[entities |-> <<Entity(user_id, "Self", "", EmptyJson, "confirmed", 0),
                     Entity("P", "Project", "c", EmptyJson, "confirmed", 0)>>,
      relations |-> <<Relation(user_id, "P", "OWNS")>>],
     [entities |-> <<Entity("P", "Project", "c", EmptyJson, "confirmed", 0)>>,
      relations |-> <<Relation("P", "Z", "SUPPORTS")>>],
     [entities |-> <<>>, relations |-> <<>>]}

\* The names the concept ids and the mentions are derived from
EntityNames(entities) == [i \in 1..Len(entities) |-> entities[i].name]

\* One chunk of the task: add_log, then upsert_entities_batch,
\* add_concepts_batch and add_mentions_batch when the chunk has entities,
\* then upsert_relations_batch when it has relations. A batch that fails
\* returns False, which the task does not look at.
ProcessGraphTask(user_id, chunk_id, data) ==
    LET logged == _upsert_node(nodes, user_id, chunk_id, "Log", "file_chunk",
                               "text", "confirmed", None, None,
                               [timestamp |-> "t"])
        upserted == IF \A i \in 1..Len(data.entities) :
                          data.entities[i].name # ""
                             => EntityBinds(data.entities[i])
                    THEN UpsertEntities(logged, user_id, data.entities)
                    ELSE logged
        mentions == {Edge(chunk_id, _get_stable_id(data.entities[i].name),
                          "MENTIONS", user_id) : i \in 1..Len(data.entities)}
    IN  /\ nops < MaxOps
        /\ nodes' = IF data.entities = <<>> THEN logged
                    ELSE AddConcepts(upserted, user_id,
                                     EntityNames(data.entities))
        /\ edges' = edges \cup mentions
                          \cup RelationEdges(user_id, data.relations)
        /\ call' = Call("process_graph_task", user_id, TRUE, data, None)
        /\ nops' = nops + 1
        /\ UNCHANGED <<staging_nodes, staging_edges, hash_seed, otherVars>>

----------------------------------------------------------------------------
(* get_all_graph_data: the graph projection *)

ViewTypes == {"global", "strategic", "people", "staging"}

ViewShows(view_type, type) ==
    CASE view_type = "strategic" ->
            type \in {"Vision", "Goal", "Project", "Task", "Action", "Self",
                      "Insight"}
      [] view_type = "people" -> type \in {"Person", "Organization", "Self"}
      [] OTHER -> TRUE

\* One element of the response's "nodes". row_user_id is not part of the
\* response: it records the user_id of the table row the element was read
\* from ("" when no row was read).
GraphNode(id, type, label, content, row_user_id) ==
    [id |-> id, type |-> type, label |-> label, content |-> content,
     row_user_id |-> row_user_id]

PrimaryNode(id, r) ==
    GraphNode(id, r.type,
              IF r.name # "" THEN r.name
              ELSE IF r.content # "" THEN r.content ELSE "Unknown",
              r.content, r.user_id)

\* A neighbour outside the selected rows: SELECT .. FROM node_table WHERE id=?
GhostNode(ntbl, id) ==
    IF id \in DOMAIN ntbl
    THEN GraphNode(id, ntbl[id].type,
                   IF ntbl[id].name # "" THEN ntbl[id].name ELSE "Unknown",
                   ntbl[id].content, ntbl[id].user_id)
    ELSE GraphNode(id, "Concept (Linked)", id, "", "")

\* The LIMITs of the queries (1000, 2000, 5000 rows) are beyond the tables of
\* the model; the order of the elements is not modelled.
get_all_graph_data(user_id, view_type) ==
    LET ntbl == IF view_type = "staging" THEN staging_nodes ELSE nodes
        etbl == IF view_type = "staging" THEN staging_edges ELSE edges
        node_ids == {i \in DOMAIN ntbl :
                       /\ ntbl[i].user_id = user_id
                       /\ ViewShows(view_type, ntbl[i].type)}
        e_rows == {e \in etbl :
                     /\ e.user_id = user_id
                     /\ (e.source \in node_ids \/ e.target \in node_ids)}
        ghosts == ({e.source : e \in e_rows} \cup {e.target : e \in e_rows})
                    \ node_ids
    IN  [nodes |-> {PrimaryNode(i, ntbl[i]) : i \in node_ids}
                     \cup {GhostNode(ntbl, i) : i \in ghosts},
         links |-> {[source |-> e.source, target |-> e.target,
                     type |-> e.relation] : e \in e_rows}]

GetGraphData(user_id, view_type) ==
    /\ call' = Call("get_all_graph_data", user_id, TRUE, view_type,
                    get_all_graph_data(user_id, view_type))
    /\ UNCHANGED <<nodes, edges, staging_nodes, staging_edges, hash_seed, otherVars, nops>>

----------------------------------------------------------------------------
(* Memory Airlock: add_to_staging *)

\* Node ids are uuid4 strings minted per run: no two users share one.
StageId(user_id, k) == k \o "_" \o user_id

StagedIds(user_id) == {StageId(user_id, k) : k \in {"n1", "n2", "n3", "n4"}}

ExtractedNode(id, type, name, content) ==
    [id |-> id, type |-> type, name |-> name, content |-> content]

ExtractedEdge(source, target, relation) ==
    [source |-> source, target |-> target, relation |-> relation]

\* What ETLPipeline._consolidate_results hands to add_to_staging: A2 is a
\* near-duplicate of A that the clustering missed, and the Self entity is
\* carried under the id SELF_NODE_ID.
ConsolidatedData(user_id) ==
    {[nodes |-> <<ExtractedNode(StageId(user_id, "n1"), "Person", "A", "a"),
                  ExtractedNode(StageId(user_id, "n2"), "Project", "B", ""),
                  ExtractedNode(StageId(user_id, "n3"), "Person", "A2", "")>>,
      edges |-> <<ExtractedEdge(StageId(user_id, "n1"), StageId(user_id, "n2"),
                                "WORKS_ON"),
                  ExtractedEdge(StageId(user_id, "n3"), StageId(user_id, "n2"),
                                "WORKS_ON"),
                  ExtractedEdge("SELF_NODE_ID", StageId(user_id, "n1"),
                                "KNOWS")>>],
     [nodes |-> <<ExtractedNode("SELF_NODE_ID", "Self", "Self", ""),
                  ExtractedNode(StageId(user_id, "n4"), "Vision", "V", "v")>>,
      edges |-> <<ExtractedEdge("SELF_NODE_ID", StageId(user_id, "n4"),
                                "OWNS")>>],
     [nodes |-> <<ExtractedNode(StageId(user_id, "n1"), "Person", "A", "a")>>,
      edges |-> <<>>]}

RECURSIVE StageNodes(_, _, _, _)
StageNodes(tbl, user_id, ns, source_file) ==
    IF ns = <<>> THEN tbl
    ELSE LET n == Head(ns)
             nid == IF n.type = "Vision" THEN VisionId(user_id) ELSE n.id
         IN  IF n.type # "Vision" /\ (n.type = "Self" \/ n.id = "SELF_NODE_ID")
             THEN StageNodes(tbl, user_id, Tail(ns), source_file)
             ELSE StageNodes(
                    Put(tbl, nid, StagingRow(user_id, n.type, n.name, n.content,
                                             EmptyJson, Some(source_file))),
                    user_id, Tail(ns), source_file)

StageEdges(etbl, user_id, es) ==
    etbl \cup
    {Edge(IF es[i].source = "SELF_NODE_ID" THEN user_id ELSE es[i].source,
          IF es[i].target = "SELF_NODE_ID" THEN user_id ELSE es[i].target,
          es[i].relation, user_id) : i \in 1..Len(es)}

\* A variant of add_to_staging that empties the user's staging area before
\* it loads the new rows.
AddToStagingAfterClear(user_id, data, source_file) ==
    /\ nops < MaxOps
    /\ staging_nodes' =
          StageNodes(Del(staging_nodes, {i \in DOMAIN staging_nodes :
                                           staging_nodes[i].user_id = user_id}),
                     user_id, data.nodes, source_file)
    /\ staging_edges' = StageEdges(staging_edges, user_id, data.edges)
    /\ call' = Call("add_to_staging", user_id, TRUE, data, None)
    /\ nops' = nops + 1
    /\ UNCHANGED <<nodes, edges, hash_seed, otherVars>>

\* GraphStore.add_to_staging, as ETLPipeline.run calls it at the end of a run
AddToStaging(user_id, data, source_file) ==
    /\ nops < MaxOps
    /\ staging_nodes' = StageNodes(staging_nodes, user_id, data.nodes, source_file)
    /\ staging_edges' = StageEdges(staging_edges, user_id, data.edges)
    /\ call' = Call("add_to_staging", user_id, TRUE, data, None)
    /\ nops' = nops + 1
    /\ UNCHANGED <<nodes, edges, hash_seed, otherVars>>

----------------------------------------------------------------------------
(* ETLPipeline: _consolidate_results and the load into the Memory Airlock *)

\* The user ETLPipeline.run loads for
EtlUser == "user_bancozy"

\* str(uuid.uuid4()) for the i-th standard node of a run
Uuid4(run, i) == "uuid_" \o run \o (IF i = 1 THEN "_1" ELSE "_2")

EtlRuns == {"r1", "r2"}

StandardNode(name, type, content) ==
    [name |-> name, type |-> type, content |-> content]

NamedEdge(source_name, target_name, relation) ==
    [source_name |-> source_name, target_name |-> target_name,
     relation |-> relation]

\* The chunk results of a file, with the consolidation the LLM answers: the
\* edges of the chunks by entity name, the mapping from original to standard
\* names and the standard nodes
EtlFiles ==
    {[all_edges |-> <<NamedEdge("A2", "B", "WORKS_ON"),
                      NamedEdge("wo", "A", "KNOWS")>>,
      mapping |-> [k \in {"A2"} |-> "A"],
      standard_nodes |-> <<StandardNode("A", "Person", "a"),
                           StandardNode("B", "Project", "")>>],
     [all_edges |-> <<NamedEdge("V", "B", "DECOMPOSES_TO"),
                      NamedEdge("Self", "V", "OWNS"),
                      NamedEdge("B", "gone", "INVOLVES")>>,
      mapping |-> EmptyJson,
      standard_nodes |-> <<StandardNode("V", "Vision", "v"),
                           StandardNode("B", "Project", "")>>]}

\* The names that stand for the owner (the Chinese ones written in pinyin)
SelfNames == {"Self", "wo", "benren", "benren shenfen", "zhuren", "wode"}

\* mapping.get(name, name), then the names of the owner folded into "Self"
StandardName(mapping, name) ==
    LET mapped == IF name \in DOMAIN mapping THEN mapping[name] ELSE name
    IN  IF mapped \in SelfNames THEN "Self" ELSE mapped

\* name_to_id.get(name), SELF_NODE_ID for Self; None when the name has no id
NameToId(standard_nodes, run, name) ==
    LET at == {i \in 1..Len(standard_nodes) : standard_nodes[i].name = name}
    IN  IF name = "Self" THEN Some("SELF_NODE_ID")
        ELSE IF at = {} THEN None
        ELSE Some(Uuid4(run, CHOOSE i \in at : \A j \in at : j <= i))

\* The edges whose two ends have an id and differ, in order, each signature
\* once
RECURSIVE FinalEdges(_, _, _, _)
FinalEdges(res, run, n, acc) ==
    IF n > Len(res.all_edges) THEN acc
    ELSE LET e == res.all_edges[n]
             src_id == NameToId(res.standard_nodes, run,
                                StandardName(res.mapping, e.source_name))
             tgt_id == NameToId(res.standard_nodes, run,
                                StandardName(res.mapping, e.target_name))
             keep == src_id # None /\ tgt_id # None /\ src_id # tgt_id
             edge == ExtractedEdge(src_id[1], tgt_id[1], e.relation)
         IN  FinalEdges(res, run, n + 1,
                        IF keep /\ edge \notin SeqToSet(acc)
                        THEN Append(acc, edge) ELSE acc)

\* Every standard node gets a new uuid
_consolidate_results(res, run) ==
    [nodes |-> [i \in 1..Len(res.standard_nodes) |->
                  ExtractedNode(Uuid4(run, i), res.standard_nodes[i].type,
                                res.standard_nodes[i].name,
                                res.standard_nodes[i].content)],
     edges |-> FinalEdges(res, run, 1, <<>>)]

\* ETLPipeline.run from the consolidation on: the consolidated data is loaded
\* into the staging area with add_to_staging
EtlRun(res, run) ==
    LET data == _consolidate_results(res, run)
    IN  /\ nops < MaxOps
        /\ \A i \in 1..Len(res.standard_nodes) :
              Uuid4(run, i) \notin DOMAIN staging_nodes
        /\ staging_nodes' = StageNodes(staging_nodes, EtlUser, data.nodes, "f.md")
        /\ staging_edges' = StageEdges(staging_edges, EtlUser, data.edges)
        /\ call' = Call("etl_run", EtlUser, TRUE, data, None)
        /\ nops' = nops + 1
        /\ UNCHANGED <<nodes, edges, hash_seed, otherVars>>

----------------------------------------------------------------------------
(* IngestionService.process_deepseek_pipeline: the file ingestion of the API *)

\* The structured results of the chunks of one file, ids as the LLM numbers them
StructuredResults ==
    {<<>>,
     <<[nodes |-> <<ExtractedNode("1", "Project", "P", "c"),
                    ExtractedNode("2", "Person", "Z", "")>>,
        edges |-> <<ExtractedEdge("1", "2", "INVOLVES")>>]>>,
     <<[nodes |-> <<ExtractedNode("1", "Self", "Me", ""),
                    ExtractedNode("2", "Vision", "V", "v")>>,
        edges |-> <<ExtractedEdge("1", "2", "OWNS")>>]>>}

DeepseekStableId(user_id, n) ==
    IF n.type = "Vision" THEN VisionId(user_id)
    ELSE IF n.type = "Self" THEN user_id
    ELSE _get_stable_id(n.name)

\* id_map after the nodes of one result (it accumulates over the results)
RECURSIVE DeepseekIdMap(_, _, _)
DeepseekIdMap(id_map, user_id, ns) ==
    IF ns = <<>> THEN id_map
    ELSE DeepseekIdMap(JsonSet(id_map, Head(ns).id,
                               DeepseekStableId(user_id, Head(ns))),
                       user_id, Tail(ns))

RECURSIVE DeepseekNodes(_, _, _)
DeepseekNodes(tbl, user_id, ns) ==
    IF ns = <<>> THEN tbl
    ELSE DeepseekNodes(
            Put(tbl, DeepseekStableId(user_id, Head(ns)),
                NodeRow(user_id, Head(ns).type, Head(ns).name, Head(ns).content,
                        EmptyJson, "confirmed", None,
                        IF Head(ns).type \in {"Vision", "Self"}
                        THEN ScoreCore ELSE ScoreNeutral,
                        None)),
            user_id, Tail(ns))

DeepseekEdges(id_map, user_id, es) ==
    {Edge(IF es[i].source \in DOMAIN id_map THEN id_map[es[i].source]
          ELSE es[i].source,
          IF es[i].target \in DOMAIN id_map THEN id_map[es[i].target]
          ELSE es[i].target,
          es[i].relation, user_id) : i \in 1..Len(es)}

\* [nodes, edges, id_map] after all results
RECURSIVE DeepseekWrite(_, _, _)
DeepseekWrite(acc, user_id, results) ==
    IF results = <<>> THEN acc
    ELSE LET res == Head(results)
             id_map == DeepseekIdMap(acc.id_map, user_id, res.nodes)
         IN  DeepseekWrite(
                [nodes |-> DeepseekNodes(acc.nodes, user_id, res.nodes),
                 edges |-> acc.edges \cup DeepseekEdges(id_map, user_id, res.edges),
                 id_map |-> id_map],
                user_id, Tail(results))

\* The run writes the canonical tables in one transaction on its own
\* connection; the vector store is not modelled.
ProcessDeepseekPipeline(user_id, results) ==
    LET out == DeepseekWrite([nodes |-> nodes, edges |-> edges,
                              id_map |-> EmptyJson], user_id, results)
    IN  /\ nops < MaxOps
        /\ nodes' = out.nodes
        /\ edges' = out.edges
        /\ call' = Call("process_deepseek_pipeline", user_id, TRUE, results, None)
        /\ nops' = nops + 1
        /\ UNCHANGED <<staging_nodes, staging_edges, hash_seed, otherVars>>

----------------------------------------------------------------------------
(* Memory Airlock: the staging handlers of the API *)

\* POST /staging/commit. node_ids is None (absent) or Some(a set of ids); an
\* empty list is falsy and commits everything, like an absent one.
CommitAll(node_ids) == node_ids = None \/ node_ids[1] = {}

CommitNodeRows(user_id, node_ids) ==
    {i \in DOMAIN staging_nodes :
        /\ staging_nodes[i].user_id = user_id
        /\ CommitAll(node_ids) \/ i \in node_ids[1]}

CommitNodeId(user_id, i) ==
    IF staging_nodes[i].type = "Vision" THEN VisionId(user_id)
    ELSE IF staging_nodes[i].type = "Self" THEN user_id
    ELSE i

\* INSERT OR REPLACE INTO nodes (id, user_id, type, name, content, attributes,
\* source_file): status and alignment_score take the column defaults. The
\* handlers below never leave two staged rows of a user that normalise to one
\* id, so the order of the loop does not matter.
CommitNodes(user_id, rows) ==
    [i \in (DOMAIN nodes) \cup {CommitNodeId(user_id, r) : r \in rows} |->
        IF \E r \in rows : CommitNodeId(user_id, r) = i
        THEN LET r == CHOOSE r \in rows : CommitNodeId(user_id, r) = i
             IN  NodeRow(user_id, staging_nodes[r].type, staging_nodes[r].name,
                         staging_nodes[r].content, staging_nodes[r].attributes,
                         "confirmed", None, ScoreUnset,
                         staging_nodes[r].source_file)
        ELSE nodes[i]]

CommitEdgeRows(user_id, node_ids) ==
    {e \in staging_edges :
        /\ e.user_id = user_id
        /\ CommitAll(node_ids)
             \/ (e.source \in node_ids[1] /\ e.target \in node_ids[1])}

CommitStaging(user_id, node_ids) ==
    /\ nops < MaxOps
    /\ nodes' = CommitNodes(user_id, CommitNodeRows(user_id, node_ids))
    /\ edges' = edges \cup CommitEdgeRows(user_id, node_ids)
    /\ IF CommitAll(node_ids)
       THEN /\ staging_nodes' =
                  Del(staging_nodes, {i \in DOMAIN staging_nodes :
                                        staging_nodes[i].user_id = user_id})
            /\ staging_edges' = {e \in staging_edges : e.user_id # user_id}
       ELSE /\ staging_nodes' =
                  Del(staging_nodes, {i \in DOMAIN staging_nodes :
                                        /\ staging_nodes[i].user_id = user_id
                                        /\ i \in node_ids[1]})
            /\ staging_edges' = staging_edges
    /\ call' = Call("commit_staging_memories", user_id, TRUE, node_ids, None)
    /\ nops' = nops + 1
    /\ UNCHANGED <<hash_seed, otherVars>>

\* UPDATE staging_edges SET col = target_id WHERE col = source_id AND user_id:
\* a rewritten row that meets an existing row violates the primary key.
RewriteEdges(etbl, user_id, col, source_id, target_id) ==
    LET moved == {e \in etbl : e[col] = source_id /\ e.user_id = user_id}
        kept == etbl \ moved
        rewritten == {[e EXCEPT ![col] = target_id] : e \in moved}
    IN  [ok |-> source_id = target_id \/ rewritten \cap kept = {},
         tbl |-> kept \cup rewritten]

\* POST /staging/merge: 400 without ids; an IntegrityError rolls the
\* transaction back and becomes a 500.
MergeStaging(user_id, source_id, target_id) ==
    LET step1 == RewriteEdges(staging_edges, user_id, "source", source_id,
                              target_id)
        step2 == RewriteEdges(step1.tbl, user_id, "target", source_id,
                              target_id)
        ok == source_id # "" /\ target_id # "" /\ step1.ok /\ step2.ok
    IN  /\ nops < MaxOps
        /\ IF ok
           THEN /\ staging_edges' = step2.tbl
                /\ staging_nodes' =
                      Del(staging_nodes,
                          {i \in DOMAIN staging_nodes :
                              i = source_id /\ staging_nodes[i].user_id = user_id})
           ELSE UNCHANGED <<staging_nodes, staging_edges>>
        /\ call' = Call("merge_staging_nodes", user_id, ok,
                        [source_id |-> source_id, target_id |-> target_id], None)
        /\ nops' = nops + 1
        /\ UNCHANGED <<nodes, edges, hash_seed, otherVars>>

\* PATCH /staging/nodes/{id}: each of name, content, type is None or Some(v).
UpdateStagingNode(user_id, node_id, name, content, node_type) ==
    /\ nops < MaxOps
    /\ staging_nodes' =
          [i \in DOMAIN staging_nodes |->
              IF i = node_id /\ staging_nodes[i].user_id = user_id
              THEN [staging_nodes[i] EXCEPT
                      !.name = IF name # None THEN name[1] ELSE @,
                      !.content = IF content # None THEN content[1] ELSE @,
                      !.type = IF node_type # None THEN node_type[1] ELSE @]
              ELSE staging_nodes[i]]
    /\ call' = Call("update_staging_node", user_id, TRUE,
                    [id |-> node_id, name |-> name, content |-> content,
                     type |-> node_type], None)
    /\ nops' = nops + 1
    /\ UNCHANGED <<nodes, edges, staging_edges, hash_seed, otherVars>>

\* DELETE /staging/nodes/{id}
DeleteStagingNode(user_id, node_id) ==
    /\ nops < MaxOps
    /\ staging_edges' =
          {e \in staging_edges :
              ~((e.source = node_id \/ e.target = node_id) /\ e.user_id = user_id)}
    /\ staging_nodes' =
          Del(staging_nodes, {i \in DOMAIN staging_nodes :
                                i = node_id /\ staging_nodes[i].user_id = user_id})
    /\ call' = Call("delete_staging_node", user_id, TRUE, node_id, None)
    /\ nops' = nops + 1
    /\ UNCHANGED <<nodes, edges, hash_seed, otherVars>>

\* DELETE /staging -> GraphStore.clear_staging
ClearStaging(user_id) ==
    /\ nops < MaxOps
    /\ staging_nodes' =
          Del(staging_nodes, {i \in DOMAIN staging_nodes :
                                staging_nodes[i].user_id = user_id})
    /\ staging_edges' = {e \in staging_edges : e.user_id # user_id}
    /\ call' = Call("clear_staging", user_id, TRUE, None, None)
    /\ nops' = nops + 1
    /\ UNCHANGED <<nodes, edges, hash_seed, otherVars>>

\* The id sets a client sends to POST /staging/commit
CommitRequests(user_id) ==
    {None, Some({})}
    \cup {Some({StageId(user_id, "n1")}),
          Some({StageId(user_id, "n1"), StageId(user_id, "n2")}),
          Some({StageId(user_id, "n1"), StageId(user_id, "n2"),
                StageId(user_id, "n3")}),
          Some({VisionId(user_id)})}

MergeIds(user_id) ==
    {"", StageId(user_id, "n1"), StageId(user_id, "n2"), StageId(user_id, "n3")}

----------------------------------------------------------------------------
(* Writes that bypass GraphStore: debug_graph.inject_test_data *)

\* uuid4().hex[:8] values of the runs
UuidHex8 == {"ab12cd34", "ef56ab78"}

\* INSERT INTO nodes (id, user_id, type, name, status): the other columns are
\* NULL or take their defaults (NULL text is modelled as "").
RawRow(user_id, type, name) ==
    NodeRow(user_id, type, name, "", EmptyJson, "confirmed", None, ScoreUnset,
            None)

\* The script's user is fixed in its source; every id of a run is fresh. The
\* Self row is inserted only when the user has none; a plain INSERT on a taken
\* id raises and nothing is committed.
InjectTestData(user_id, h, self_node_id) ==
    LET has_self == \E i \in DOMAIN nodes :
                       nodes[i].type = "Self" /\ nodes[i].user_id = user_id
        vision_id == "vision_" \o h
        goal_id == "goal_" \o h
        project_id == "proj_" \o h
        with_self == IF has_self THEN nodes
                     ELSE Put(nodes, user_id, RawRow(user_id, "Self", "Me"))
    IN  /\ nops < MaxOps
        /\ vision_id \notin DOMAIN nodes
        /\ IF has_self
           THEN self_node_id \in DOMAIN nodes
                /\ nodes[self_node_id].type = "Self"
                /\ nodes[self_node_id].user_id = user_id
           ELSE self_node_id = user_id
        /\ IF ~has_self /\ user_id \in DOMAIN nodes
           THEN UNCHANGED <<nodes, edges>>
                /\ call' = Call("inject_test_data", user_id, FALSE, h, None)
           ELSE /\ nodes' =
                     Put(Put(Put(with_self,
                                 vision_id, RawRow(user_id, "Vision", "V0")),
                             goal_id, RawRow(user_id, "Goal", "G0")),
                         project_id, RawRow(user_id, "Project", "P0"))
                /\ edges' = edges \cup
                     {Edge(self_node_id, vision_id, "OWNS", user_id),
                      Edge(vision_id, goal_id, "DECOMPOSES_TO", user_id),
                      Edge(goal_id, project_id, "ACHIEVED_BY", user_id)}
                /\ call' = Call("inject_test_data", user_id, TRUE, h, None)
        /\ nops' = nops + 1
        /\ UNCHANGED <<staging_nodes, staging_edges, hash_seed, otherVars>>

----------------------------------------------------------------------------
(* GraphStore._init_db -> _heal_vision_nodes: the healer run at every start *)

\* id LIKE 'vision_%' over the ids of the model ('_' matches any one
\* character): the canonical ids and the vision_<uuid8> ids match, an id of a
\* database written before the normalisation ("old_vision_x") does not.
LikeVisionPattern(id) ==
    id \in {VisionId(u) : u \in Users} \cup {"vision_" \o h : h \in UuidHex8}

\* INSERT OR IGNORE .. SELECT with col replaced, then DELETE of the old rows
MoveEdges(etbl, user_id, col, old_id, target_id) ==
    LET moved == {e \in etbl : e[col] = old_id /\ e.user_id = user_id}
    IN  (etbl \cup {[e EXCEPT ![col] = target_id] : e \in moved}) \ moved

\* One row of the loop. A rename onto an id held by another user raises;
\* the except clause of the healer ends the healing there.
HealVisionRow(db, old_id) ==
    LET user_id == db.nodes[old_id].user_id
        target_id == VisionId(user_id)
        e1 == MoveEdges(db.edges, user_id, "source", old_id, target_id)
        e2 == MoveEdges(e1, user_id, "target", old_id, target_id)
        exists == target_id \in DOMAIN db.nodes
                    /\ db.nodes[target_id].user_id = user_id
    IN  IF exists
        THEN [nodes |-> Del(db.nodes, {old_id}), edges |-> e2, failed |-> FALSE]
        ELSE IF target_id \in DOMAIN db.nodes
        THEN [nodes |-> db.nodes, edges |-> e2, failed |-> TRUE]
        ELSE [nodes |-> Put(Del(db.nodes, {old_id}), target_id,
                            db.nodes[old_id]),
              edges |-> e2, failed |-> FALSE]

HealCandidates(tbl) ==
    {i \in DOMAIN tbl : tbl[i].type = "Vision" /\ ~LikeVisionPattern(i)}

\* The tables of the model hold at most one candidate per user, so the order
\* in which the SELECT yields the rows does not change the outcome.
RECURSIVE HealTable(_)
HealTable(db) ==
    IF db.failed \/ HealCandidates(db.nodes) = {} THEN db
    ELSE HealTable(HealVisionRow(db, CHOOSE i \in HealCandidates(db.nodes) : TRUE))

\* Opening the store: canonical tables first, staging tables second; after a
\* failure in the first half the second is skipped, and what was written is
\* committed.
OpenStore ==
    LET canon == HealTable([nodes |-> nodes, edges |-> edges, failed |-> FALSE])
        stage == IF canon.failed
                 THEN [nodes |-> staging_nodes, edges |-> staging_edges,
                       failed |-> TRUE]
                 ELSE HealTable([nodes |-> staging_nodes,
                                 edges |-> staging_edges, failed |-> FALSE])
    IN  /\ nodes' = canon.nodes
        /\ edges' = canon.edges
        /\ staging_nodes' = stage.nodes
        /\ staging_edges' = stage.edges
        /\ call' = Call("_init_db", "", TRUE, None, None)
        /\ UNCHANGED <<hash_seed, otherVars, nops>>

----------------------------------------------------------------------------
(* scripts/self_healing.py: self_healing(user_id), one transaction *)

\* The orders in which a SELECT without ORDER BY may yield the rows S
Orders(S) ==
    {o \in [1..Cardinality(S) -> S] :
        \A i, j \in 1..Cardinality(S) : i # j => o[i] # o[j]}

\* "\n".join of the non-empty contents, in the order of the rows
RECURSIVE JoinContents(_, _, _)
JoinContents(tbl, order, i) ==
    IF i > Len(order) THEN ""
    ELSE LET rest == JoinContents(tbl, order, i + 1)
             c == tbl[order[i]].content
         IN  IF c = "" THEN rest
             ELSE IF rest = "" THEN c
             ELSE c \o "\n" \o rest

\* dict.update over the attributes of the rows, in their order
RECURSIVE MergeAttributes(_, _, _)
MergeAttributes(tbl, order, i) ==
    IF i > Len(order) THEN EmptyJson
    ELSE LET rest == MergeAttributes(tbl, order, i + 1)
             a == tbl[order[i]].attributes
         IN  [k \in (DOMAIN a) \cup (DOMAIN rest) |->
                 IF k \in DOMAIN rest THEN rest[k] ELSE a[k]]

\* Re-link the edges of one old node with plain UPDATEs (a rewritten row that
\* meets an existing one raises), then DELETE FROM nodes WHERE id = old_id.
RelinkAndDelete(db, user_id, old_id, target_id) ==
    LET s1 == RewriteEdges(db.edges, user_id, "source", old_id, target_id)
        s2 == RewriteEdges(s1.tbl, user_id, "target", old_id, target_id)
    IN  [nodes |-> Del(db.nodes, {old_id}), edges |-> s2.tbl,
         failed |-> db.failed \/ ~s1.ok \/ ~s2.ok]

RECURSIVE RelinkAll(_, _, _, _, _)
RelinkAll(db, user_id, order, i, target_id) ==
    IF i > Len(order) THEN db
    ELSE RelinkAll(IF order[i] = target_id THEN db
                   ELSE RelinkAndDelete(db, user_id, order[i], target_id),
                   user_id, order, i + 1, target_id)

\* 1. Fix Vision Nodes
FixVisionNodes(db, user_id, vision_nodes) ==
    LET target_vision_id == VisionId(user_id)
        merged == NodeRow(user_id, "Vision", db.nodes[vision_nodes[1]].name,
                          JoinContents(db.nodes, vision_nodes, 1),
                          MergeAttributes(db.nodes, vision_nodes, 1),
                          "confirmed", None, ScoreUnset, None)
    IN  IF Len(vision_nodes) > 1
           \/ (Len(vision_nodes) = 1 /\ vision_nodes[1] # target_vision_id)
        THEN RelinkAll([db EXCEPT !.nodes = Put(@, target_vision_id, merged)],
                       user_id, vision_nodes, 1, target_vision_id)
        ELSE db

\* 2. Fix Self Node
FixSelfNode(db, user_id, self_nodes) ==
    IF Len(self_nodes) > 1 \/ (Len(self_nodes) = 1 /\ self_nodes[1] # user_id)
    THEN LET relinked == RelinkAll(db, user_id, self_nodes, 1, user_id)
         IN  IF user_id \in DOMAIN relinked.nodes THEN relinked
             ELSE [relinked EXCEPT
                     !.nodes = Put(@, user_id,
                                   NodeRow(user_id, "Self", "Self", "The Owner",
                                           EmptyJson, "confirmed", None,
                                           ScoreUnset, None))]
    ELSE db

\* 3. Ensure Self -> OWNS -> Vision; 4. link the goals the Vision does not reach
FixEdges(db, user_id) ==
    LET target_vision_id == VisionId(user_id)
        owned == db.edges \cup {Edge(user_id, target_vision_id, "OWNS", user_id)}
        linked == {e.target : e \in {x \in owned :
                                        /\ x.source = target_vision_id
                                        /\ x.relation = "HAS_GOAL"}}
        orphan_goals == {i \in DOMAIN db.nodes :
                            /\ db.nodes[i].user_id = user_id
                            /\ db.nodes[i].type = "Goal"
                            /\ i \notin linked}
    IN  [db EXCEPT !.edges = owned \cup
            {Edge(target_vision_id, g, "HAS_GOAL", user_id) : g \in orphan_goals}]

RowsOfType(tbl, user_id, type) ==
    {i \in DOMAIN tbl : tbl[i].user_id = user_id /\ tbl[i].type = type}

\* The whole script; any exception rolls the transaction back.
SelfHealing(user_id, vision_nodes) ==
    LET db0 == [nodes |-> nodes, edges |-> edges, failed |-> FALSE]
        db1 == FixVisionNodes(db0, user_id, vision_nodes)
    IN  /\ vision_nodes \in Orders(RowsOfType(nodes, user_id, "Vision"))
        /\ \E self_nodes \in Orders(RowsOfType(db1.nodes, user_id, "Self")) :
              LET db2 == FixSelfNode(db1, user_id, self_nodes)
                  db3 == FixEdges(db2, user_id)
              IN  IF db3.failed
                  THEN /\ UNCHANGED <<nodes, edges>>
                       /\ call' = Call("self_healing", user_id, FALSE, None, None)
                  ELSE /\ nodes' = db3.nodes
                       /\ edges' = db3.edges
                       /\ call' = Call("self_healing", user_id, TRUE, None, None)
        /\ UNCHANGED <<staging_nodes, staging_edges, hash_seed, otherVars, nops>>

----------------------------------------------------------------------------
(* Concurrent tasks: request handlers and background jobs of one process *)

Tasks == {"t1", "t2"}

\* The handlers that open their connection under `with self._lock`
LockedHandlers == {"add_to_staging"}

\* The handlers that open their connection with _get_conn() alone
UnlockedHandlers == {"process_deepseek_pipeline", "create_goal"}

TaskIdle == [op |-> "", at |-> "idle", user_id |-> "", args |-> None]

\* No task is running
TasksInit ==
    /\ lock = None
    /\ db_writer = None
    /\ pc = [t \in Tasks |-> TaskIdle]

\* What a task may be started with
TaskInputs(op, user_id) ==
    IF op = "add_to_staging"
    THEN {d \in ConsolidatedData(user_id) : Len(d.nodes) = 1}
    ELSE IF op = "process_deepseek_pipeline"
    THEN {r \in StructuredResults : Len(r) = 1}
    ELSE {[name |-> "g", content |-> "", priority |-> "medium", uuid |-> h] :
            h \in {"ab12cd34"}}

\* A thread or coroutine enters a handler
StartTask(t, op, user_id, args) ==
    /\ nops < MaxOps
    /\ pc[t].at = "idle"
    /\ pc' = [pc EXCEPT ![t] = [op |-> op,
                                at |-> IF op \in LockedHandlers
                                       THEN "lock" ELSE "conn",
                                user_id |-> user_id, args |-> args]]
    /\ nops' = nops + 1
    /\ UNCHANGED <<nodes, edges, staging_nodes, staging_edges, hash_seed,
                   call, lock, db_writer, chunker,
                   chatVars, trainVars, storeVars>>

\* `with self._lock`: threading.Lock.acquire blocks while another task holds it
AcquireLock(t) ==
    /\ pc[t].at = "lock"
    /\ lock = None
    /\ lock' = Some(t)
    /\ pc' = [pc EXCEPT ![t].at = "conn"]
    /\ UNCHANGED <<nodes, edges, staging_nodes, staging_edges, hash_seed,
                   call, nops, db_writer, chunker,
                   chatVars, trainVars, storeVars>>

\* Releasing the mutex at the end of the `with` block, if the task holds it
ReleaseLock(t) == IF lock = Some(t) THEN None ELSE lock

\* The first INSERT on the task's own connection opens SQLite's write
\* transaction; no other connection holds one.
BeginWrite(t) ==
    /\ pc[t].at = "conn"
    /\ db_writer = None
    /\ db_writer' = Some(t)
    /\ pc' = [pc EXCEPT ![t].at = "write"]
    /\ UNCHANGED <<nodes, edges, staging_nodes, staging_edges, hash_seed,
                   call, nops, lock, chunker,
                   chatVars, trainVars, storeVars>>

\* The first INSERT finds another connection's write transaction open for the
\* whole busy timeout: sqlite3.OperationalError, which the handler catches
\* (process_deepseek_pipeline logs it, create_goal answers 500,
\* add_to_staging returns False); nothing is written.
BusyTimeout(t) ==
    /\ pc[t].at = "conn"
    /\ db_writer # None
    /\ call' = Call(pc[t].op, pc[t].user_id, FALSE, pc[t].args, None)
    /\ lock' = ReleaseLock(t)
    /\ pc' = [pc EXCEPT ![t] = TaskIdle]
    /\ UNCHANGED <<nodes, edges, staging_nodes, staging_edges, hash_seed,
                   nops, db_writer, chunker,
                   chatVars, trainVars, storeVars>>

\* create_goal: the Goal row and its HAS_GOAL edge from parent_id, the target
\* of one OWNS edge leaving the user's id (LIMIT 1 without ORDER BY), or the
\* user's id when there is none.
CreateGoalParents(user_id) ==
    LET owned == {e.target : e \in {x \in edges : /\ x.source = user_id
                                                  /\ x.relation = "OWNS"}}
    IN  IF owned = {} THEN {user_id} ELSE owned

CreateGoalNodes(user_id, a) ==
    _upsert_node(nodes, user_id, "goal_" \o a.uuid, "Goal", a.name, a.content,
                 "confirmed", None, None,
                 [k \in {"attributes"} |-> "active/" \o a.priority])

CreateGoalEdges(user_id, a, parent_id) ==
    _upsert_edge(edges, user_id, parent_id, "goal_" \o a.uuid, "HAS_GOAL")

\* The rest of the handler's statements and the commit that ends its `with`
\* block: the handler's rows reach the tables, the write transaction ends and
\* the mutex, if held, is released.
CommitWrite(t) ==
    LET op == pc[t].op
        u == pc[t].user_id
        a == pc[t].args
        ds == DeepseekWrite([nodes |-> nodes, edges |-> edges,
                             id_map |-> EmptyJson], u, a)
    IN  /\ pc[t].at = "write"
        /\ \E parent_id \in CreateGoalParents(u) :
              /\ nodes' = IF op = "process_deepseek_pipeline" THEN ds.nodes
                          ELSE IF op = "create_goal" THEN CreateGoalNodes(u, a)
                          ELSE nodes
              /\ edges' = IF op = "process_deepseek_pipeline" THEN ds.edges
                          ELSE IF op = "create_goal"
                          THEN CreateGoalEdges(u, a, parent_id)
                          ELSE edges
        /\ staging_nodes' = IF op = "add_to_staging"
                            THEN StageNodes(staging_nodes, u, a.nodes, "f.txt")
                            ELSE staging_nodes
        /\ staging_edges' = IF op = "add_to_staging"
                            THEN StageEdges(staging_edges, u, a.edges)
                            ELSE staging_edges
        /\ call' = Call(op, u, TRUE, a, None)
        /\ db_writer' = None
        /\ lock' = ReleaseLock(t)
        /\ pc' = [pc EXCEPT ![t] = TaskIdle]
        /\ UNCHANGED <<hash_seed, nops, chunker,
                   chatVars, trainVars, storeVars>>

----------------------------------------------------------------------------
(* commit_staging_memories statement by statement *)

\* The users whose staged rows are committed: the API's default user, whom
\* the ETL pipeline loads for, and another one
CommitUsers == {EtlUser, "u1"}

\* SELECT * FROM staging_nodes WHERE user_id = ?
StagedRows(user_id) ==
    [i \in {j \in DOMAIN staging_nodes : staging_nodes[j].user_id = user_id}
        |-> staging_nodes[i]]

\* The id a fetched row is promoted under
PromotedId(user_id, i, row) ==
    IF row.type = "Vision" THEN VisionId(user_id)
    ELSE IF row.type = "Self" THEN user_id
    ELSE i

\* The loop of INSERT OR REPLACE INTO nodes over the rows that were fetched
PromoteRows(tbl, user_id, rows) ==
    [i \in (DOMAIN tbl) \cup {PromotedId(user_id, r, rows[r]) : r \in DOMAIN rows}
        |-> IF \E r \in DOMAIN rows : PromotedId(user_id, r, rows[r]) = i
            THEN LET r == CHOOSE r \in DOMAIN rows :
                             PromotedId(user_id, r, rows[r]) = i
                 IN  NodeRow(user_id, rows[r].type, rows[r].name,
                             rows[r].content, rows[r].attributes, "confirmed",
                             None, ScoreUnset, rows[r].source_file)
            ELSE tbl[i]]

\* The handler takes the mutex of the service's GraphStore, opens its
\* connection and fetches the staged nodes. sqlite3 opens no transaction for
\* a SELECT, so the rows are read outside the write transaction.
CommitSelect(t, user_id) ==
    /\ nops < MaxOps
    /\ pc[t].at = "idle"
    /\ lock = None
    /\ lock' = Some(t)
    /\ pc' = [pc EXCEPT ![t] = [op |-> "commit_staging_memories",
                                at |-> "selected", user_id |-> user_id,
                                args |-> StagedRows(user_id)]]
    /\ nops' = nops + 1
    /\ UNCHANGED <<nodes, edges, staging_nodes, staging_edges, hash_seed,
                   call, db_writer, chunker, chatVars, trainVars, storeVars>>

\* The first INSERT opens the write transaction: the fetched rows are
\* promoted, the staged edges are fetched and promoted, DELETE FROM
\* staging_nodes / staging_edges WHERE user_id = ? empties the user's staging
\* area as it is now, and leaving the `with` block commits and releases the
\* mutex.
CommitPromote(t) ==
    /\ pc[t].at = "selected"
    /\ db_writer = None
    /\ nodes' = PromoteRows(nodes, pc[t].user_id, pc[t].args)
    /\ edges' = edges \cup {e \in staging_edges : e.user_id = pc[t].user_id}
    /\ staging_nodes' = Del(staging_nodes,
                            {i \in DOMAIN staging_nodes :
                                staging_nodes[i].user_id = pc[t].user_id})
    /\ staging_edges' = {e \in staging_edges : e.user_id # pc[t].user_id}
    /\ call' = Call("commit_staging_memories", pc[t].user_id, TRUE, None,
                    DOMAIN pc[t].args)
    /\ lock' = ReleaseLock(t)
    /\ pc' = [pc EXCEPT ![t] = TaskIdle]
    /\ UNCHANGED <<hash_seed, nops, db_writer, chunker, chatVars, trainVars,
                   storeVars>>

\* add_to_staging through the service's GraphStore: the whole call runs
\* under the mutex the commit handler takes
ServiceAddToStaging(user_id, data, source_file) ==
    /\ lock = None
    /\ AddToStaging(user_id, data, source_file)

----------------------------------------------------------------------------
(* FileProcessor._chunk_text: the chunker, one loop iteration per step *)

Min(a, b) == IF a < b THEN a ELSE b

Max(a, b) == IF a > b THEN a ELSE b

\* A Python slice bound i on a sequence of length n
PyBound(i, n) == IF i < 0 THEN Max(i + n, 0) ELSE Min(i, n)

\* text[a:b]
PySlice(s, a, b) ==
    LET lo == PyBound(a, Len(s))
        hi == PyBound(b, Len(s))
    IN  IF lo >= hi THEN <<>> ELSE SubSeq(s, lo + 1, hi)

\* text.rfind(ch, a, b): the last index in [a, b) holding ch, or -1
PyRfind(s, ch, a, b) ==
    LET found == {i \in PyBound(a, Len(s)) .. (PyBound(b, Len(s)) - 1) :
                     s[i + 1] = ch}
    IN  IF found = {} THEN -1 ELSE CHOOSE i \in found : \A j \in found : j <= i

Whitespace == {" ", "\n"}

\* str.strip()
RECURSIVE PyStrip(_)
PyStrip(s) ==
    IF s = <<>> THEN s
    ELSE IF Head(s) \in Whitespace THEN PyStrip(Tail(s))
    ELSE IF s[Len(s)] \in Whitespace THEN PyStrip(SubSeq(s, 1, Len(s) - 1))
    ELSE s

\* chunks.append(chunk) when the chunk is not empty
AppendChunk(chunks, chunk) == IF chunk # <<>> THEN Append(chunks, chunk) ELSE chunks

\* No call of the chunker is in progress
NoChunking ==
    [text |-> <<>>, chunk_size |-> 0, chunk_overlap |-> 0, start |-> 0,
     chunks |-> <<>>, at |-> "idle"]

\* _chunk_text(text) up to its loop; an empty text returns [] at once
EnterChunkText(text, chunk_size, chunk_overlap) ==
    [text |-> text, chunk_size |-> chunk_size, chunk_overlap |-> chunk_overlap,
     start |-> 0, chunks |-> <<>>,
     at |-> IF text = <<>> THEN "return" ELSE "while"]

\* One iteration of `while start < text_len`
ChunkTextStep ==
    LET text == chunker.text
        text_len == Len(text)
        start == chunker.start
        end0 == start + chunker.chunk_size
        search_start == start + chunker.chunk_size \div 2
        last_newline == PyRfind(text, "\n", search_start, end0)
        end == IF end0 < text_len /\ last_newline # -1
               THEN last_newline + 1 ELSE end0
        chunks1 == AppendChunk(chunker.chunks, PyStrip(PySlice(text, start, end)))
        next_start == end - chunker.chunk_overlap
        stop == next_start >= text_len
                  \/ (text_len - next_start) < chunker.chunk_size \div 4
        chunks2 == IF stop /\ next_start < text_len
                   THEN AppendChunk(chunks1,
                                    PyStrip(PySlice(text, next_start, text_len)))
                   ELSE chunks1
    IN  /\ chunker.at = "while"
        /\ Len(chunker.chunks) < MaxChunks
        /\ chunker' = [chunker EXCEPT
                          !.start = next_start,
                          !.chunks = chunks2,
                          !.at = IF stop THEN "return" ELSE "while"]
        /\ UNCHANGED <<nodes, edges, staging_nodes, staging_edges, hash_seed,
                       call, nops, procVars, chatVars, trainVars, storeVars>>

----------------------------------------------------------------------------
(* A chat turn: _generate_ai_response, and the two coroutines it schedules *)

\* MemoryConfig.MIN_TEXT_LENGTH
MinTextLength == 20

\* The user messages of the model, by what the attention filter looks at
Messages ==
    {[text |-> "why", length |-> 30, stop_phrase |-> FALSE, keyword |-> TRUE],
     [text |-> "ok", length |-> 2, stop_phrase |-> TRUE, keyword |-> FALSE]}

\* The attention filter
_is_informative(m) ==
    /\ m.length >= MinTextLength
    /\ ~m.stop_phrase
    /\ m.keyword

ChatInit ==
    /\ vectors = [documents |-> {}, concepts |-> {}, experiences |-> {}]
    /\ experiences = EmptyTable
    /\ loop = {}
    /\ turns = {}

\* A coroutine handed to asyncio.create_task
Coroutine(coro, user_id, turn, message) ==
    [coro |-> coro, user_id |-> user_id, turn |-> turn, message |-> message,
     at |-> "start"]

\* similarity_search(query_vector, user_id): the documents of the user
SimilaritySearch(user_id) ==
    {d.turn : d \in {x \in vectors.documents : x.user_id = user_id}}

\* The handler of one chat message: the workflow retrieves the user's memories
\* (retrieve_memory_node), the reply is streamed, and when it is not empty
\* process_chat_interaction and evolve are scheduled with create_task; the
\* handler does not await them.
GenerateAiResponse(user_id, message, full_ai_content) ==
    LET turn == nops + 1
    IN  /\ nops < MaxTurns
        /\ loop' = IF full_ai_content = "" THEN loop
                   ELSE loop \cup
                        {Coroutine("process_chat_interaction", user_id, turn,
                                   message),
                         Coroutine("evolve", user_id, turn, message)}
        /\ turns' = turns \cup {[user_id |-> user_id, turn |-> turn,
                                 message |-> message,
                                 ai_response |-> full_ai_content]}
        /\ call' = Call("_generate_ai_response", user_id, TRUE, message,
                        SimilaritySearch(user_id))
        /\ nops' = nops + 1
        /\ UNCHANGED <<nodes, edges, staging_nodes, staging_edges, hash_seed,
                       procVars, chunker, trainVars, vectors, experiences, storeVars>>

\* ProcessChatInteraction, steps 1 and 2: a turn that fails the filter ends
\* the call; otherwise the combined text is embedded (the coroutine is
\* suspended meanwhile) and one document vector is written.
ProcessChatWriteVector(t) ==
    /\ t \in loop
    /\ t.coro = "process_chat_interaction" /\ t.at = "start"
    /\ IF _is_informative(t.message)
       THEN /\ vectors' = [vectors EXCEPT !.documents =
                              @ \cup {[type |-> "chat", user_id |-> t.user_id,
                                       turn |-> t.turn]}]
            /\ loop' = (loop \ {t}) \cup {[t EXCEPT !.at = "extract"]}
       ELSE /\ vectors' = vectors
            /\ loop' = loop \ {t}
    /\ call' = Call("process_chat_interaction", t.user_id, TRUE, t.turn, None)
    /\ UNCHANGED <<nodes, edges, staging_nodes, staging_edges, hash_seed,
                   nops, procVars, chunker, trainVars, experiences, turns, storeVars>>

\* What ExtractStructuredMemory returns for a turn
ChatExtraction(user_id) ==
    [entities |-> <<Entity("P", "Project", "c", EmptyJson, "", 0),
                    Entity("Z", "Person", "", EmptyJson, "", 1)>>,
     relations |-> <<Relation("Z", "P", "SUPPORTS")>>]

\* Step 4, the status policy
StatusPolicy(entities) ==
    [i \in 1..Len(entities) |->
        [entities[i] EXCEPT !.status =
            IF entities[i].type \in {"Task", "Person"} /\ @ = ""
            THEN "pending" ELSE "confirmed"]]

\* Steps 3 to 6: extraction, status policy, BatchUpsertEntities with the
\* concept vectors of the confirmed entities, relations; then the call returns.
ProcessChatExtract(t) ==
    LET data == ChatExtraction(t.user_id)
        entities == StatusPolicy(data.entities)
    IN  /\ t \in loop
        /\ t.coro = "process_chat_interaction" /\ t.at = "extract"
        /\ nodes' = UpsertEntities(nodes, t.user_id, entities)
        /\ edges' = edges \cup RelationEdges(t.user_id, data.relations)
        /\ vectors' = [vectors EXCEPT !.concepts = @ \cup
                          {[id |-> EntityNodeId(t.user_id, entities[i]),
                            name |-> entities[i].name] :
                             i \in {j \in 1..Len(entities) :
                                      entities[j].status = "confirmed"}}]
        /\ loop' = loop \ {t}
        /\ call' = Call("process_chat_interaction", t.user_id, TRUE, t.turn,
                        None)
        /\ UNCHANGED <<staging_nodes, staging_edges, hash_seed, nops, procVars,
                       chunker, trainVars, experiences, turns, storeVars>>

----------------------------------------------------------------------------
(* EvolutionService.evolve: micro-evolution after a chat turn *)

\* A line of the LLM's reply: the tag it starts with, if any, and the rest
\* of the line, stripped.
Line(tag, rest) == [tag |-> tag, rest |-> rest]

Pass == <<Line("", "PASS")>>

\* The replies of the model: PASS, a lesson, a lesson without INSIGHT, a reply
\* cut before its STRATEGY line, and a lesson on one line with the three
\* parts separated by semicolons.
Replies ==
    {Pass,
     <<Line("TRIGGER:", "t"), Line("INSIGHT:", "i"), Line("STRATEGY:", "s")>>,
     <<Line("TRIGGER:", "t"), Line("STRATEGY:", "s")>>,
     <<Line("TRIGGER:", "t"), Line("INSIGHT:", "i")>>,
     <<Line("TRIGGER:", "t; INSIGHT: i; STRATEGY: s")>>}

\* The value the loop over the lines leaves in the variable of a tag: that of
\* the last line starting with the tag, "" when there is none
RECURSIVE ParseTag(_, _)
ParseTag(lines, tag) ==
    IF lines = <<>> THEN ""
    ELSE IF lines[Len(lines)].tag = tag THEN lines[Len(lines)].rest
    ELSE ParseTag(SubSeq(lines, 1, Len(lines) - 1), tag)

\* GraphStore.add_experience: INSERT OR REPLACE INTO experiences
add_experience(tbl, user_id, exp_id, trigger, insight, strategy) ==
    Put(tbl, exp_id, [user_id |-> user_id, trigger_scenario |-> trigger,
                      insight |-> insight, strategy |-> strategy])

\* VectorStore.add_experience_vector: the entry of the experience collection,
\* keyed by the experience's id
add_experience_vector(coll, exp_id, strategy) ==
    coll \cup {[id |-> exp_id, document |-> strategy]}

\* create_experience: the row first, then the vector under the same id
create_experience(db, user_id, exp_id, trigger, insight, strategy) ==
    [experiences |-> add_experience(db.experiences, user_id, exp_id, trigger,
                                    insight, strategy),
     vectors |-> [db.vectors EXCEPT !.experiences =
                     add_experience_vector(@, exp_id, strategy)]]

\* evolve from the LLM's reply on: PASS ends it; otherwise the three tags are
\* parsed and an experience is created when trigger and strategy are not
\* empty (a warning is logged when they are). Every exp id is a fresh uuid.
Evolve(t, content, h) ==
    LET trigger == ParseTag(content, "TRIGGER:")
        insight == ParseTag(content, "INSIGHT:")
        strategy == ParseTag(content, "STRATEGY:")
        exp_id == "exp_" \o h
        db == create_experience([experiences |-> experiences,
                                 vectors |-> vectors],
                                t.user_id, exp_id, trigger, insight, strategy)
        found == content # Pass /\ trigger # "" /\ strategy # ""
    IN  /\ t \in loop
        /\ t.coro = "evolve"
        /\ found => exp_id \notin DOMAIN experiences
        /\ IF found
           THEN /\ experiences' = db.experiences
                /\ vectors' = db.vectors
           ELSE UNCHANGED <<experiences, vectors>>
        /\ loop' = loop \ {t}
        /\ call' = Call("evolve", t.user_id, TRUE, content,
                        IF found THEN Some(exp_id) ELSE None)
        /\ UNCHANGED <<nodes, edges, staging_nodes, staging_edges, hash_seed,
                       nops, procVars, chunker, trainVars, turns, storeVars>>

----------------------------------------------------------------------------
(* Training tasks: start_training, _process_batch_training, clear_memory *)

TrainInit ==
    /\ tasks_db = EmptyTable
    /\ jobs = EmptyTable

\* str(uuid.uuid4()) of the requests
TaskIds == {"task_1", "task_2"}

\* The files a request can name: whether the file is in the upload directory,
\* whether parse_file reads it, and the number of chunks it yields
TrainFile(filename, exists, parses, chunks) ==
    [filename |-> filename, exists |-> exists, parses |-> parses,
     chunks |-> chunks]

FilenameLists ==
    {<<TrainFile("a.md", TRUE, TRUE, 2)>>,
     <<TrainFile("gone.md", FALSE, FALSE, 0)>>,
     <<TrainFile("bad.bin", TRUE, FALSE, 0),
       TrainFile("a.md", TRUE, TRUE, 1)>>}

\* What extract_structured_memory_deepseek returns for a chunk: {} on a
\* failure, or a structured result
ChunkResults ==
    {<<>>,
     <<[nodes |-> <<ExtractedNode("1", "Project", "P", "c"),
                    ExtractedNode("2", "Person", "Z", "")>>,
        edges |-> <<ExtractedEdge("1", "2", "INVOLVES")>>]>>}

\* POST /train: the task is registered as pending and the batch job is handed
\* to the background tasks
StartTraining(user_id, task_id, filenames) ==
    /\ nops < MaxOps
    /\ task_id \notin DOMAIN jobs
    /\ tasks_db' = Put(tasks_db, task_id, [status |-> "pending", progress |-> 0])
    /\ jobs' = Put(jobs, task_id,
                   [user_id |-> user_id, filenames |-> filenames, i |-> 0,
                    at |-> "for", k |-> 0, results |-> <<>>])
    /\ call' = Call("start_training", user_id, TRUE, filenames, Some(task_id))
    /\ nops' = nops + 1
    /\ UNCHANGED <<nodes, edges, staging_nodes, staging_edges, hash_seed,
                   procVars, chunker, chatVars, storeVars>>

\* _tasks_db[task_id][...] = ... raises KeyError when the task is not in the
\* dictionary. Raised in the body of _process_batch_training it reaches the
\* except clause, whose own _tasks_db[task_id]["status"] = "failed" raises
\* again: the job ends with the exception.
JobAt(task_id, at) == task_id \in DOMAIN jobs /\ jobs[task_id].at = at

Raised(task_id) == [jobs EXCEPT ![task_id].at = "raised"]

\* One turn of the loop over the filenames, up to the first await: progress
\* is recorded, a file that is not found is skipped with a warning, a file
\* that is found goes to ingest_file. After the last file the task is marked
\* completed.
BatchNextFile(task_id) ==
    LET job == jobs[task_id]
        total_files == Len(job.filenames)
    IN  /\ JobAt(task_id, "for")
        /\ IF task_id \notin DOMAIN tasks_db
           THEN /\ jobs' = Raised(task_id)
                /\ tasks_db' = tasks_db
           ELSE IF job.i >= total_files
           THEN /\ tasks_db' = [tasks_db EXCEPT ![task_id] =
                                  [status |-> "completed", progress |-> 100]]
                /\ jobs' = [jobs EXCEPT ![task_id].at = "done"]
           ELSE /\ tasks_db' = [tasks_db EXCEPT ![task_id].progress =
                                  (job.i * 100) \div total_files]
                /\ jobs' = IF job.filenames[job.i + 1].exists
                           THEN [jobs EXCEPT ![task_id].at = "ingest_file"]
                           ELSE [jobs EXCEPT ![task_id].i = job.i + 1]
        /\ call' = Call("_process_batch_training", job.user_id, TRUE, task_id,
                        None)
        /\ UNCHANGED <<nodes, edges, staging_nodes, staging_edges, hash_seed,
                       nops, procVars, chunker, chatVars, storeVars>>

\* ingest_file returns from parsing: a failure is returned as success False,
\* which the batch ignores; on success the task's message is set and
\* process_deepseek_pipeline starts on the chunks.
IngestFile(task_id) ==
    LET job == jobs[task_id]
    IN  /\ JobAt(task_id, "ingest_file")
        /\ jobs' = IF ~job.filenames[job.i + 1].parses
                   THEN [jobs EXCEPT ![task_id].i = job.i + 1,
                                     ![task_id].at = "for"]
                   ELSE IF task_id \notin DOMAIN tasks_db
                   THEN Raised(task_id)
                   ELSE [jobs EXCEPT ![task_id].at = "chunk",
                                     ![task_id].k = 0,
                                     ![task_id].results = <<>>]
        /\ call' = Call("ingest_file", job.user_id,
                        job.filenames[job.i + 1].parses, task_id, None)
        /\ UNCHANGED <<nodes, edges, staging_nodes, staging_edges, hash_seed,
                       nops, procVars, chunker, chatVars, tasks_db, storeVars>>

\* process_deepseek_pipeline, one turn of the loop over the chunks: the chunk
\* is structured and a non-empty result is kept
PipelineChunk(task_id, res) ==
    LET job == jobs[task_id]
    IN  /\ JobAt(task_id, "chunk")
        /\ job.k < job.filenames[job.i + 1].chunks
        /\ jobs' = [jobs EXCEPT ![task_id].k = job.k + 1,
                                ![task_id].results = job.results \o res]
        /\ call' = Call("process_deepseek_pipeline", job.user_id, TRUE,
                        task_id, Some(job.k))
        /\ UNCHANGED <<nodes, edges, staging_nodes, staging_edges, hash_seed,
                       nops, procVars, chunker, chatVars, tasks_db, storeVars>>

\* process_deepseek_pipeline after the last chunk: the results are written to
\* the graph, and the batch goes on to the next file
PipelineWrite(task_id) ==
    LET job == jobs[task_id]
        out == DeepseekWrite([nodes |-> nodes, edges |-> edges,
                              id_map |-> EmptyJson], job.user_id, job.results)
    IN  /\ JobAt(task_id, "chunk")
        /\ job.k = job.filenames[job.i + 1].chunks
        /\ nodes' = out.nodes
        /\ edges' = out.edges
        /\ jobs' = [jobs EXCEPT ![task_id].i = job.i + 1,
                                ![task_id].at = "for"]
        /\ call' = Call("process_deepseek_pipeline", job.user_id, TRUE,
                        task_id, None)
        /\ UNCHANGED <<staging_nodes, staging_edges, hash_seed, nops, procVars,
                       chunker, chatVars, tasks_db, storeVars>>

\* GraphStore.clear_all_data(user_id)
ClearAllData(db, user_id) ==
    [nodes |-> Del(db.nodes, {i \in DOMAIN db.nodes :
                                 db.nodes[i].user_id = user_id}),
     edges |-> {e \in db.edges : e.user_id # user_id},
     experiences |-> Del(db.experiences,
                         {i \in DOMAIN db.experiences :
                             db.experiences[i].user_id = user_id})]

\* DELETE /clear: the task dictionary is emptied, the user's data is cleared
\* and the Self and Vision nodes are written again from the user's profile
ClearMemory(user_id, vision_data) ==
    LET db == ClearAllData([nodes |-> nodes, edges |-> edges,
                            experiences |-> experiences], user_id)
    IN  /\ nops < MaxOps
        /\ tasks_db' = EmptyTable
        /\ nodes' = SyncNodes(db.nodes, user_id, vision_data)
        /\ edges' = SyncEdges(db.edges, user_id, vision_data)
        /\ experiences' = db.experiences
        /\ call' = Call("clear_memory", user_id, TRUE, vision_data, None)
        /\ nops' = nops + 1
        /\ UNCHANGED <<staging_nodes, staging_edges, hash_seed, procVars,
                       chunker, vectors, loop, turns, jobs, storeVars>>

\* GET /tasks/{task_id}: 404 when the task is not in the dictionary
\* (the handler does not look at the user who asks)
GetTaskStatus(task_id) ==
    /\ call' = IF task_id \in DOMAIN tasks_db
               THEN Call("get_task_status", "", TRUE, task_id,
                         Some(tasks_db[task_id]))
               ELSE Call("get_task_status", "", FALSE, task_id, None)
    /\ UNCHANGED <<nodes, edges, staging_nodes, staging_edges, hash_seed, nops,
                   otherVars>>

\* The job's state is marked cancelled
MarkCancelled(task_id) ==
    /\ task_id \in DOMAIN tasks_db
    /\ task_id \in DOMAIN jobs
    /\ jobs[task_id].at \notin {"done", "raised"}
    /\ tasks_db[task_id].status # "cancelled"
    /\ tasks_db' = [tasks_db EXCEPT ![task_id].status = "cancelled"]
    /\ call' = Call("cancel", jobs[task_id].user_id, TRUE, task_id, None)
    /\ UNCHANGED <<nodes, edges, staging_nodes, staging_edges, hash_seed, nops,
                   procVars, chunker, chatVars, jobs, storeVars>>

----------------------------------------------------------------------------
(* The edges table row by row: its primary key and the conflict clauses *)

\* The tables _init_db creates
AllTables == {"nodes", "edges", "experiences", "staging_nodes", "staging_edges"}

StoreInit ==
    /\ edge_rows = {}
    /\ tables = AllTables

\* A row of edges: the key columns, properties, and created_at, which
\* defaults to CURRENT_TIMESTAMP (here the number of writes made before)
EdgeRow(source, target, relation, user_id, properties, created_at) ==
    [source |-> source, target |-> target, relation |-> relation,
     user_id |-> user_id, properties |-> properties, created_at |-> created_at]

\* PRIMARY KEY (source, target, relation, user_id)
EdgeKey(r) == Edge(r.source, r.target, r.relation, r.user_id)

RowsWithKey(etbl, k) == {r \in etbl : EdgeKey(r) = k}

\* INSERT INTO edges with no conflict clause, on a table that has no key
InsertPlain(etbl, row) == etbl \cup {row}

\* INSERT OR IGNORE INTO edges: a row whose key is taken is skipped
InsertOrIgnore(etbl, row) ==
    IF RowsWithKey(etbl, EdgeKey(row)) # {} THEN etbl ELSE etbl \cup {row}

\* INSERT OR REPLACE INTO edges: the rows holding the key are deleted first
InsertOrReplace(etbl, row) ==
    (etbl \ RowsWithKey(etbl, EdgeKey(row))) \cup {row}

\* executemany: the rows are inserted in the order of the list
RECURSIVE InsertManyOrIgnore(_, _)
InsertManyOrIgnore(etbl, rows) ==
    IF rows = <<>> THEN etbl
    ELSE InsertManyOrIgnore(InsertOrIgnore(etbl, Head(rows)), Tail(rows))

\* A relation of an extraction with its properties, as json.dumps writes them
RelationRow(source, target, relation, properties) ==
    [source |-> source, target |-> target, relation |-> relation,
     properties |-> properties]

RelationRowBatches(user_id) ==
    {<<RelationRow("P", "Z", "SUPPORTS", "{}")>>,
     <<RelationRow("P", "Z", "SUPPORTS", "{\"w\": 1}"),
       RelationRow("P", "Z", "SUPPORTS", "{}")>>,
     <<RelationRow(user_id, "P", "OWNS", "{}"),
       RelationRow("P", "", "SUPPORTS", "{}")>>}

\* edge_data of upsert_relations_batch: the relations that name both ends and
\* a relation, with the ends hashed
RECURSIVE EdgeData(_, _, _)
EdgeData(user_id, relations, now) ==
    IF relations = <<>> THEN <<>>
    ELSE LET r == Head(relations)
             rest == EdgeData(user_id, Tail(relations), now)
         IN  IF r.source = "" \/ r.target = "" \/ r.relation = "" THEN rest
             ELSE <<EdgeRow(_get_stable_id(r.source), _get_stable_id(r.target),
                            r.relation, user_id, r.properties, now)>> \o rest

EdgeDataKeys(user_id, relations) ==
    {EdgeKey(r) : r \in SeqToSet(EdgeData(user_id, relations, 0))}

\* upsert_relations_batch on the full rows
UpsertRelationsBatchRows(user_id, relations) ==
    /\ nops < MaxOps
    /\ edge_rows' = InsertManyOrIgnore(edge_rows,
                                       EdgeData(user_id, relations, nops))
    /\ call' = Call("upsert_relations_batch", user_id, TRUE, relations,
                    EdgeDataKeys(user_id, relations))
    /\ nops' = nops + 1
    /\ UNCHANGED <<nodes, edges, staging_nodes, staging_edges, hash_seed,
                   procVars, chunker, chatVars, trainVars, tables>>

\* The _upsert_edge calls of sync_user_to_self_node, which pass no keyword:
\* properties is json.dumps({})
SyncEdgeRows(user_id, vision_data) ==
    /\ nops < MaxOps
    /\ vision_data.present
    /\ edge_rows' =
          edge_rows \cup
          {EdgeRow(e.source, e.target, e.relation, e.user_id, "{}", nops) :
             e \in {x \in SyncEdges({}, user_id, vision_data) :
                      InsertOrIgnore(edge_rows,
                          EdgeRow(x.source, x.target, x.relation, x.user_id,
                                  "{}", nops)) # edge_rows}}
    /\ call' = Call("sync_user_to_self_node", user_id, TRUE, vision_data,
                    SyncEdges({}, user_id, vision_data))
    /\ nops' = nops + 1
    /\ UNCHANGED <<nodes, edges, staging_nodes, staging_edges, hash_seed,
                   procVars, chunker, chatVars, trainVars, tables>>

\* POST /edges on the full rows: properties is left NULL
CreateEdgeRow(user_id, source, target, relation) ==
    /\ nops < MaxOps
    /\ IF source = "" \/ target = ""
       THEN /\ edge_rows' = edge_rows
            /\ call' = Call("create_edge", user_id, FALSE,
                            Edge(source, target, relation, user_id), {})
       ELSE /\ edge_rows' = InsertOrReplace(edge_rows,
                               EdgeRow(source, target, relation, user_id,
                                       "null", nops))
            /\ call' = Call("create_edge", user_id, TRUE,
                            Edge(source, target, relation, user_id),
                            {Edge(source, target, relation, user_id)})
    /\ nops' = nops + 1
    /\ UNCHANGED <<nodes, edges, staging_nodes, staging_edges, hash_seed,
                   procVars, chunker, chatVars, trainVars, tables>>

----------------------------------------------------------------------------
(* _ensure_tables, _init_db and the schema of brain.db *)

\* The file a store may find: complete, written by a version that had no
\* experiences table, or new
Schemas == {AllTables, AllTables \ {"experiences"}, {}}

\* GraphStore.__init__ runs before any handler does
Constructed == \A t \in Tasks : pc[t].op # "__init__"

\* A write handler is entered (add_log); its first statement is
\* self._ensure_tables()
StartWrite(t, user_id, content) ==
    /\ nops < MaxOps
    /\ Constructed
    /\ pc[t].at = "idle"
    /\ pc' = [pc EXCEPT ![t] = [op |-> "add_log", at |-> "ensure",
                                user_id |-> user_id, args |-> content]]
    /\ nops' = nops + 1
    /\ UNCHANGED <<nodes, edges, staging_nodes, staging_edges, hash_seed,
                   call, lock, db_writer, chunker, chatVars, trainVars,
                   storeVars>>

\* _ensure_tables: `with self._lock`
EnsureAcquire(t) ==
    /\ pc[t].at = "ensure"
    /\ lock = None
    /\ lock' = Some(t)
    /\ pc' = [pc EXCEPT ![t].at = "ensure_check"]
    /\ UNCHANGED <<nodes, edges, staging_nodes, staging_edges, hash_seed,
                   call, nops, db_writer, chunker, chatVars, trainVars,
                   storeVars>>

\* _ensure_tables: the two SELECTs on sqlite_master. With both tables there
\* the `with` block is left; with one missing self._init_db() is called
\* inside the block, the mutex still held.
EnsureCheck(t) ==
    /\ pc[t].at = "ensure_check"
    /\ IF {"nodes", "experiences"} \subseteq tables
       THEN /\ lock' = ReleaseLock(t)
            /\ pc' = [pc EXCEPT ![t].at = "lock"]
       ELSE /\ lock' = lock
            /\ pc' = [pc EXCEPT ![t].at = "init_db"]
    /\ UNCHANGED <<nodes, edges, staging_nodes, staging_edges, hash_seed,
                   call, nops, db_writer, chunker, chatVars, trainVars,
                   storeVars>>

\* _init_db: `with self._lock` (threading.Lock: the holder itself waits like
\* anyone else), CREATE TABLE IF NOT EXISTS for every table, then
\* _heal_vision_nodes; the call returns to __init__ or to _ensure_tables
InitDb(t) ==
    LET canon == HealTable([nodes |-> nodes, edges |-> edges, failed |-> FALSE])
    IN  /\ pc[t].at = "init_db"
        /\ lock = None
        /\ tables' = AllTables
        /\ nodes' = canon.nodes
        /\ edges' = canon.edges
        /\ call' = Call("_init_db", "", TRUE, None, None)
        /\ lock' = None
        /\ pc' = [pc EXCEPT ![t] = IF pc[t].op = "__init__" THEN TaskIdle
                                   ELSE [pc[t] EXCEPT !.at = "ensure_check"]]
        /\ UNCHANGED <<staging_nodes, staging_edges, hash_seed, nops,
                       db_writer, chunker, chatVars, trainVars, edge_rows>>

\* add_log after _ensure_tables: `with self._lock, self._get_conn()`, the
\* _upsert_node of the Log row, commit and release
WriteLog(t) ==
    /\ pc[t].at = "lock"
    /\ pc[t].op = "add_log"
    /\ lock = None
    /\ nodes' = _upsert_node(nodes, pc[t].user_id, "chunk_1", "Log", "chat",
                             pc[t].args, "confirmed", None, None,
                             [timestamp |-> "t"])
    /\ call' = Call("add_log", pc[t].user_id, TRUE,
                    Incoming("chunk_1", pc[t].args, "confirmed", None,
                             ScoreNeutral),
                    None)
    /\ pc' = [pc EXCEPT ![t] = TaskIdle]
    /\ UNCHANGED <<edges, staging_nodes, staging_edges, hash_seed, nops,
                   lock, db_writer, chunker, chatVars, trainVars, storeVars>>

\* brain.db is removed or replaced while the service runs: the next
\* connection finds a new file, or one of a version without experiences
DatabaseReplaced(schema) ==
    /\ Constructed
    /\ tables = AllTables
    /\ tables' = schema
    /\ nodes' = EmptyTable
    /\ edges' = {}
    /\ staging_nodes' = EmptyTable
    /\ staging_edges' = {}
    /\ UNCHANGED <<hash_seed, call, nops, procVars, chunker, chatVars,
                   trainVars, edge_rows>>

----------------------------------------------------------------------------
(* The initial state of the variables the sequential handlers leave alone *)

OtherInit ==
    /\ TasksInit
    /\ chunker = NoChunking
    /\ ChatInit
    /\ TrainInit
    /\ StoreInit

----------------------------------------------------------------------------
(* Properties of the canonical graph *)

\* C5: for every user U and every view, every node returned by
\* get_all_graph_data(U, view), the auto-filled neighbour nodes included, was
\* read from a row whose user_id is U (the links are selected by user_id = U).
C5_GraphDataOnlyOwnRows ==
    call.op = "get_all_graph_data" =>
        \A n \in call.result.nodes : n.row_user_id \in {"", call.user_id}

\* C6: a step of any handler other than sync_user_to_self_node leaves every
\* Self and Vision row of the canonical nodes table as it was: it inserts
\* none and overwrites none.
C6_OnlySyncWritesSelfVision ==
    [][call'.op # "sync_user_to_self_node" =>
         \A i \in DOMAIN nodes' :
            nodes'[i].type \in {"Self", "Vision"} =>
                i \in DOMAIN nodes /\ nodes[i] = nodes'[i]]_vars

\* C7: applying an upsert a second time with the same node leaves the store
\* as the first application left it, for the single-node upsert (add_person,
\* add_log) and for the batch entity upsert with its dossier merge.
C7_UpsertIdempotent ==
    /\ (call.op = "upsert_entities_batch" /\ call.ok) =>
          UpsertEntities(nodes, call.user_id, call.args) = nodes
    /\ call.op = "add_person" =>
          _upsert_node(nodes, call.user_id, call.args.id, "Person",
                       call.result, "", "confirmed", call.args.energy_impact,
                       None, EmptyJson) = nodes
    /\ call.op = "add_log" =>
          _upsert_node(nodes, call.user_id, call.args.id, "Log", "chat",
                       call.args.content, "confirmed", None, None,
                       [timestamp |-> "t"]) = nodes

\* The rows the last node writer was handed, with the values they carry
IncomingRows(c) ==
    CASE c.op = "upsert_entities_batch" /\ c.ok ->
            {Incoming(EntityNodeId(c.user_id, e), e.content, e.status,
                      Some(e.energy_impact), ScoreNeutral) :
                e \in {x \in SeqToSet(c.args) : x.name # ""}}
      [] c.op = "add_concepts_batch" ->
            {Incoming(_get_stable_id(n), "", "confirmed", None, ScoreNeutral) :
                n \in SeqToSet(c.args)}
      [] c.op \in {"add_log", "add_person"} -> {c.args}
      [] OTHER -> {}

\* C8: when a node writer targets an id that already exists, the stored
\* content is kept if the incoming content is empty and replaced if it is
\* not, and status, energy_impact and alignment_score take the incoming
\* values.
C8_ConflictKeepsContent ==
    [][nops' # nops =>
         \A w \in IncomingRows(call') :
            w.id \in DOMAIN nodes =>
                /\ nodes'[w.id].content =
                      (IF w.content = "" THEN nodes[w.id].content
                       ELSE w.content)
                /\ nodes'[w.id].status = w.status
                /\ nodes'[w.id].energy_impact = w.energy_impact
                /\ nodes'[w.id].alignment_score = w.alignment_score]_vars

\* C9: every edge row a step writes for user_id has a source and a target
\* that are both nodes owned by that user_id; any other insert writes no row.
C9_EdgeEndpointsOwned ==
    [][\A e \in edges' \ edges :
          /\ e.source \in DOMAIN nodes' /\ nodes'[e.source].user_id = e.user_id
          /\ e.target \in DOMAIN nodes' /\ nodes'[e.target].user_id = e.user_id
      ]_vars

\* The Self and Vision rows of the users in a nodes table
CoreIds(tbl) ==
    {i \in DOMAIN tbl : /\ tbl[i].type \in {"Self", "Vision"}
                        /\ i \in {tbl[i].user_id, VisionId(tbl[i].user_id)}}

\* C21: once a user's Self and Vision nodes exist in the canonical graph, no
\* operation deletes them: every step keeps each of these rows in the table.
C21_SelfVisionNeverDeleted ==
    [][CoreIds(nodes) \subseteq DOMAIN nodes']_vars

----------------------------------------------------------------------------
(* Properties of the Memory Airlock *)

\* C1: a file-ingestion run (the ETL pipeline's load into staging, the API's
\* DeepSeek pipeline) leaves the canonical nodes and edges tables exactly as
\* they were when it started; only a separate commit changes them.
C1_IngestionWritesOnlyStaging ==
    [][(nops' # nops
        /\ call'.op \in {"add_to_staging", "process_deepseek_pipeline"})
       => (nodes' = nodes /\ edges' = edges)]_vars

StagedNodeIds(tbl, user_id) == {i \in DOMAIN tbl : tbl[i].user_id = user_id}

StagedEdgesOf(etbl, user_id) == {e \in etbl : e.user_id = user_id}

\* the staged row r of user_id is a row of the canonical table tbl
Promoted(tbl, user_id, r) ==
    \E j \in DOMAIN tbl :
        /\ tbl[j].user_id = user_id
        /\ tbl[j].type = r.type
        /\ tbl[j].name = r.name
        /\ tbl[j].content = r.content

\* C3: after a commit whose ids are omitted or name every staged node of the
\* user, the staging tables hold no row of that user and every node and edge
\* that was staged for the user is in the canonical tables.
C3_FullCommitEmptiesStaging ==
    [][(/\ nops' # nops
        /\ call'.op = "commit_staging_memories"
        /\ \/ call'.args = None
           \/ StagedNodeIds(staging_nodes, call'.user_id) \subseteq call'.args[1])
       => (/\ StagedNodeIds(staging_nodes', call'.user_id) = {}
           /\ StagedEdgesOf(staging_edges', call'.user_id) = {}
           /\ \A i \in StagedNodeIds(staging_nodes, call'.user_id) :
                 Promoted(nodes', call'.user_id, staging_nodes[i])
           /\ StagedEdgesOf(staging_edges, call'.user_id) \subseteq edges')]_vars

\* the staged edges of user_id with both endpoints in ids
EdgesWithin(etbl, user_id, ids) ==
    {e \in etbl : e.user_id = user_id /\ e.source \in ids /\ e.target \in ids}

\* C4: a commit with a non-empty proper subset ids of the user's staged nodes
\* promotes the staged nodes in ids and exactly the staged edges with both
\* endpoints in ids, and afterwards none of the promoted nodes or edges is
\* left in the staging tables.
C4_SubsetCommitPromotesAndRemoves ==
    [][(/\ nops' # nops
        /\ call'.op = "commit_staging_memories"
        /\ call'.args # None
        /\ call'.args[1] # {}
        /\ call'.args[1] \subseteq StagedNodeIds(staging_nodes, call'.user_id)
        /\ call'.args[1] # StagedNodeIds(staging_nodes, call'.user_id))
       => (LET u == call'.user_id
               ids == call'.args[1]
               within == EdgesWithin(staging_edges, u, ids)
           IN  /\ \A i \in ids : Promoted(nodes', u, staging_nodes[i])
               /\ within \subseteq edges'
               /\ edges' \ edges \subseteq within
               /\ \A i \in ids : i \notin StagedNodeIds(staging_nodes', u)
               /\ within \cap staging_edges' = {})]_vars

\* e with every endpoint source_id replaced by target_id
Redirected(e, source_id, target_id) ==
    [e EXCEPT !.source = IF @ = source_id THEN target_id ELSE @,
              !.target = IF @ = source_id THEN target_id ELSE @]

\* C10: after a merge of source_id into target_id has returned, the staged
\* source node is gone, no staged edge of the user has source_id as an
\* endpoint, and every staged edge of the user that had source_id as an
\* endpoint has target_id in its place.
C10_MergeRedirectsAndDeletes ==
    [][(nops' # nops /\ call'.op = "merge_staging_nodes" /\ call'.ok)
       => (LET u == call'.user_id
               s == call'.args.source_id
               t == call'.args.target_id
           IN  /\ s \notin StagedNodeIds(staging_nodes', u)
               /\ \A e \in StagedEdgesOf(staging_edges', u) :
                     e.source # s /\ e.target # s
               /\ \A e \in StagedEdgesOf(staging_edges, u) :
                     Redirected(e, s, t) \in staging_edges')]_vars

StagedCount(tbl, user_id) == Cardinality(StagedNodeIds(tbl, user_id))

C23_ExtractedIdsAreStable ==
    /\ \A i \in DOMAIN nodes :
          nodes[i].type \notin {"Self", "Vision"}
             => i = _get_stable_id(nodes[i].name)
    /\ \A i \in DOMAIN staging_nodes :
          staging_nodes[i].type \notin {"Self", "Vision"}
             => i = _get_stable_id(staging_nodes[i].name)

\* C30: after add_to_staging returns, both ends of every staged edge it wrote
\* are the id of a node staged for that user or the user's Self id, also when
\* a node's id was rewritten to vision_{user_id} during the load.
C30_StagedEdgesHaveStagedEnds ==
    (call.op = "add_to_staging" /\ call.ok) =>
        \A e \in StageEdges({}, call.user_id, call.args.edges) :
           {e.source, e.target} \subseteq
              StagedNodeIds(staging_nodes, call.user_id) \cup {call.user_id}

----------------------------------------------------------------------------
(* Properties of the healers *)

\* the Self and Vision rows of user_id are at most the canonical ones
CanonicalCore(user_id) ==
    /\ RowsOfType(nodes, user_id, "Self") \subseteq {user_id}
    /\ RowsOfType(nodes, user_id, "Vision") \subseteq {VisionId(user_id)}

\* C2: after self-healing has run (the healer of the store's start-up for
\* every user, the self_healing script for its user), the canonical nodes
\* table holds at most one Self node of the user, with id user_id, and at
\* most one Vision node, with id vision_{user_id}, whatever rows it held.
C2_HealedCoreIsCanonical ==
    /\ call.op = "_init_db" => \A u \in Users : CanonicalCore(u)
    /\ (call.op = "self_healing" /\ call.ok) => CanonicalCore(call.user_id)

\* The Vision rows of the user under another id than vision_{user_id}
NonCanonicalVisions(tbl, user_id) ==
    RowsOfType(tbl, user_id, "Vision") \ {VisionId(user_id)}

\* The users a healing run has gone over
HealedUsers(c) == IF c.op = "_init_db" THEN Users ELSE {c.user_id}

\* C13: when a healing run starts on a table holding a Vision node of a user
\* under a non-canonical id, with edges of that user at it, then after the run
\* the node is gone and every such edge is there with vision_{user_id} in the
\* place of the old id.
C13_HealingRepointsEdges ==
    [][call'.op \in {"_init_db", "self_healing"} =>
         \A u \in HealedUsers(call') :
            \A i \in NonCanonicalVisions(nodes, u) :
               LET at == {e \in edges : /\ e.user_id = u
                                        /\ i \in {e.source, e.target}}
               IN  at # {} =>
                     /\ i \notin DOMAIN nodes'
                     /\ \A e \in at : Redirected(e, i, VisionId(u)) \in edges'
      ]_vars

\* C14: when a healing run removes Vision rows of a user whose canonical
\* Vision row exists, the content of the canonical row after the run is the
\* non-empty contents of the removed rows and of the canonical row, joined in
\* some order.
C14_MergeKeepsContents ==
    [][call'.op \in {"_init_db", "self_healing"} =>
         \A u \in HealedUsers(call') :
            LET merged == {i \in NonCanonicalVisions(nodes, u) :
                              i \notin DOMAIN nodes'}
            IN  (/\ merged # {}
                 /\ VisionId(u) \in RowsOfType(nodes, u, "Vision"))
                => /\ VisionId(u) \in DOMAIN nodes'
                   /\ \E o \in Orders(merged \cup {VisionId(u)}) :
                         nodes'[VisionId(u)].content = JoinContents(nodes, o, 1)
      ]_vars

----------------------------------------------------------------------------
(* Properties of the batch writes *)

\* C15: after a batch write, every row of the batch that is well-formed and
\* can be written is in the store, whatever the other rows of the batch are:
\* an entity with a name and bindable values has its node, a relation with
\* both endpoints and a relation name has its edge.
C15_GoodRowsOfBatchWritten ==
    /\ call.op = "upsert_entities_batch" =>
          \A i \in 1..Len(call.args) :
             (call.args[i].name # "" /\ EntityBinds(call.args[i]))
                => EntityNodeId(call.user_id, call.args[i]) \in DOMAIN nodes
    /\ call.op = "upsert_relations_batch" =>
          \A i \in 1..Len(call.args) :
             LET r == call.args[i]
             IN  (r.source # "" /\ r.target # "" /\ r.relation # "")
                   => Edge(_get_stable_id(r.source), _get_stable_id(r.target),
                           r.relation, call.user_id) \in edges

----------------------------------------------------------------------------
(* Properties of the chunker *)

\* C16: for every text, chunk size and overlap, each iteration of the
\* chunker's loop that is followed by another one has moved the window's
\* start strictly forward.
C16_ChunkerMovesForward ==
    [][(chunker.at = "while" /\ chunker'.at = "while")
          => chunker'.start > chunker.start]_vars

\* C17: the chunker returns exactly one chunk for a text that is not blank
\* and whose length is the configured chunk size.
C17_ChunkSizedTextIsOneChunk ==
    (/\ chunker.at = "return"
     /\ Len(chunker.text) = chunker.chunk_size
     /\ PyStrip(chunker.text) # <<>>)
        => Len(chunker.chunks) = 1

\* C18: after the extraction task has handled a chunk, an entity named
\* user_id of type Self is stored under the id user_id and no node of the user
\* under another id carries that name, and every relation with user_id as an
\* endpoint has its edge with the id user_id at that endpoint.
C18_SelfReferencesFolded ==
    call.op = "process_graph_task" =>
        LET u == call.user_id
            EndpointId(name) == IF name = u THEN u ELSE _get_stable_id(name)
        IN  /\ \A i \in 1..Len(call.args.entities) :
                  (call.args.entities[i].name = u
                     /\ call.args.entities[i].type = "Self")
                  => /\ u \in DOMAIN nodes
                     /\ \A n \in DOMAIN nodes :
                           (nodes[n].user_id = u /\ nodes[n].name = u) => n = u
            /\ \A i \in 1..Len(call.args.relations) :
                  LET r == call.args.relations[i]
                  IN  u \in {r.source, r.target}
                        => Edge(EndpointId(r.source), EndpointId(r.target),
                                r.relation, u) \in edges

----------------------------------------------------------------------------
(* Properties of the chat service *)

\* The turns of user_id answered before the one numbered turn whose memory
\* process_chat_interaction is to keep: the reply was not empty and the
\* message passes the attention filter
MemorableTurns(user_id, turn) ==
    {tr \in turns : /\ tr.user_id = user_id
                    /\ tr.turn < turn
                    /\ tr.ai_response # ""
                    /\ _is_informative(tr.message)}

\* C19: process_chat_interaction completes the vector write and the
\* extraction of a chat turn before it returns to its caller, so the memory
\* of the turn is visible to the next query of the same user: when the
\* handler of a user's message has run, its retrieval has seen the document
\* of every earlier memorable turn of that user, and no
\* process_chat_interaction of such a turn is still to run.
C19_TurnVisibleToNextQuery ==
    call.op = "_generate_ai_response" =>
        \A tr \in MemorableTurns(call.user_id, nops) :
            /\ tr.turn \in call.result
            /\ ~\E t \in loop : /\ t.coro = "process_chat_interaction"
                                /\ t.turn = tr.turn

\* C20: for every micro-evolution reply other than PASS, an Experience row is
\* written to the graph store and a vector entry with the same id is written
\* to the experience collection.
C20_ExperienceForEveryNonPassReply ==
    (call.op = "evolve" /\ call.args # Pass) =>
        /\ call.result # None
        /\ call.result[1] \in DOMAIN experiences
        /\ \E v \in vectors.experiences : v.id = call.result[1]

----------------------------------------------------------------------------
(* Properties of the training tasks *)

\* C22: marking an ingestion job's state as cancelled stops the job: once the
\* flag is set, no step of the job processes a further chunk.
C22_NoChunkAfterCancel ==
    [][\A id \in DOMAIN jobs :
          (id \in DOMAIN tasks_db /\ tasks_db[id].status = "cancelled")
             => jobs'[id].k <= jobs[id].k]_vars

\* C28: every training task that was started eventually reaches status
\* completed or failed, and can be queried by its task id when it has.
C28_TaskReachesFinalStatus ==
    \A id \in TaskIds :
       [](id \in DOMAIN jobs =>
             <>(/\ id \in DOMAIN tasks_db
                /\ tasks_db[id].status \in {"completed", "failed"}))

\* C29: a batch training task has status completed only if every listed file
\* was found and its ingestion succeeded.
C29_CompletedOnlyIfAllIngested ==
    \A id \in (DOMAIN tasks_db) \cap (DOMAIN jobs) :
       tasks_db[id].status = "completed" =>
          \A n \in 1..Len(jobs[id].filenames) :
             /\ jobs[id].filenames[n].exists
             /\ jobs[id].filenames[n].parses

----------------------------------------------------------------------------
(* Properties of the concurrent tasks *)

\* C12: every task that has a write transaction open on the graph database
\* holds the Graph Store mutex.
C12_WritesHoldMutex ==
    \A t \in Tasks : pc[t].at = "write" => lock = Some(t)

----------------------------------------------------------------------------
----------------------------------------------------------------------------
(* The primary key of the edges table *)

EdgeInsertOps == {"upsert_relations_batch", "sync_user_to_self_node",
                  "create_edge"}

\* C24: for every edge (source, target, relation, user_id), inserting it
\* twice leaves exactly one row with that key in the edges table: after
\* every insert, through _upsert_edge, upsert_relations_batch or POST /edges,
\* whether or not the key was there before, the table holds one row with
\* each key the insert wrote.
C24_OneRowPerEdgeKey ==
    [][(call'.op \in EdgeInsertOps /\ call'.ok /\ nops' # nops)
       => \A k \in call'.result :
             Cardinality(RowsWithKey(edge_rows', k)) = 1]_vars

\* A key has just been inserted for the second time: the row that holds it
\* was written by an earlier insert
C24_InsertedTwice ==
    /\ call.op \in EdgeInsertOps
    /\ call.ok
    /\ \E r \in edge_rows :
          /\ EdgeKey(r) \in call.result
          /\ r.created_at < nops - 1

----------------------------------------------------------------------------
(* The rows of the other users *)

\* The rows of tbl that belong to a user other than user_id
NodesOfOthers(tbl, user_id) ==
    {<<i, tbl[i]>> : i \in {j \in DOMAIN tbl : tbl[j].user_id # user_id}}

EdgesOfOthers(etbl, user_id) == {e \in etbl : e.user_id # user_id}

\* C25: no write issued on behalf of a user (entity upsert, single-node
\* upsert, concept upsert, relation upsert, consolidation merge) changes or
\* deletes a node or edge row whose user_id is another user, even when both
\* users have an entity with the same name and so the same derived id.
C25_WritesKeepOtherUsersRows ==
    [][nops' # nops
       => /\ NodesOfOthers(nodes, call'.user_id)
               \subseteq NodesOfOthers(nodes', call'.user_id)
          /\ EdgesOfOthers(edges, call'.user_id) \subseteq edges']_vars

----------------------------------------------------------------------------
(* The commit and a concurrent load *)

\* C26: a full commit never deletes a staged row that it did not promote to
\* the canonical tables, however it interleaves with an add_to_staging for
\* the same user, one issued through another GraphStore instance on the same
\* database included: every staged node the commit step removes is in nodes
\* under its promoted id with its contents, and every staged edge it removes
\* is in edges.
C26_CommitDeletesOnlyPromoted ==
    [][(call'.op = "commit_staging_memories" /\ call' # call)
       => /\ \A i \in (DOMAIN staging_nodes) \ (DOMAIN staging_nodes') :
                /\ PromotedId(call'.user_id, i, staging_nodes[i])
                      \in DOMAIN nodes'
                /\ Promoted(nodes', call'.user_id, staging_nodes[i])
                /\ i \in call'.result
          /\ (staging_edges \ staging_edges') \subseteq edges']_vars

----------------------------------------------------------------------------
(* Termination of the writes *)

\* C27: every Graph Store write terminates and releases the mutex, also when
\* the nodes or the experiences table is found missing at the start of the
\* write and the store re-initialises its schema: a task that has entered a
\* write is idle again later, and does not hold the mutex then.
C27_WritesTerminate ==
    \A t \in Tasks :
        (pc[t].op = "add_log") ~> (pc[t].at = "idle" /\ lock # Some(t))

Init ==
    /\ nodes = EmptyTable
    /\ edges = {}
    /\ staging_nodes = EmptyTable
    /\ staging_edges = {}
    /\ hash_seed \in {<<"a", "b">>, <<"b", "a">>}
    /\ call = NoCall
    /\ nops = 0
    /\ OtherInit

\* The node writers of the canonical graph
Next ==
    \/ \E u \in Users, vd \in VisionData : SyncUserToSelfNode(u, vd)
    \/ \E u \in Users : \E b \in EntityBatches(u) : UpsertEntitiesBatch(u, b)
    \/ \E u \in Users : \E b \in ConceptBatches(u) : AddConceptsBatch(u, b)
    \/ \E u \in Users, c \in {"", "c"} : AddLog(u, "chunk_1", c)
    \/ \E u \in Users : \E d \in StructuredData(u) :
          ProcessGraphTask(u, "chunk_2", d)
    \/ \E u \in Users : AddPerson(u, "P", "Mentor", 1)

Spec == Init /\ [][Next]_vars

\* The extractions: the chat path, the file ingestion of the API and the ETL
\* pipeline
NextExtract ==
    \/ \E u \in Users : \E b \in EntityBatches(u) : UpsertEntitiesBatch(u, b)
    \/ \E u \in Users, r \in StructuredResults : ProcessDeepseekPipeline(u, r)
    \/ \E res \in EtlFiles, run \in EtlRuns : EtlRun(res, run)

SpecExtract == Init /\ [][NextExtract]_vars

\* The user's profile and the curation of the canonical graph
NextCurate ==
    \/ \E u \in Users, vd \in VisionData : SyncUserToSelfNode(u, vd)
    \/ \E u \in Users : AddPerson(u, "P", "Mentor", 1)
    \/ \E u \in Users : \E i \in NodeIds(u) : DeleteNode(u, i)
    \/ \E u \in Users, a \in {"confirm", "reject"} :
          \E i \in NodeIds(u) : ConfirmMemory(u, i, a)

SpecCurate == Init /\ [][NextCurate]_vars

\* The edge writers and the projection
NextGraph ==
    \/ \E u \in Users, vd \in VisionData : SyncUserToSelfNode(u, vd)
    \/ \E u \in Users, n \in {"P", "Z"} : AddPerson(u, n, "Mentor", 1)
    \/ \E u \in Users : \E b \in RelationBatches(u) : UpsertRelationsBatch(u, b)
    \/ \E u \in Users : \E s \in EdgeSources(u), t \in EdgeTargets(u) :
          CreateEdge(u, s, t, "RELATES_TO")
    \/ \E u \in Users, v \in ViewTypes : GetGraphData(u, v)

SpecGraph == Init /\ [][NextGraph]_vars

\* The Memory Airlock and the file ingestion
NextStaging ==
    \/ \E u \in Users : \E d \in ConsolidatedData(u) : AddToStaging(u, d, "f.md")
    \/ \E u \in Users, r \in StructuredResults : ProcessDeepseekPipeline(u, r)
    \/ \E u \in Users : \E ids \in CommitRequests(u) : CommitStaging(u, ids)
    \/ \E u \in Users : \E s \in MergeIds(u), t \in MergeIds(u) :
          MergeStaging(u, s, t)
    \/ \E u \in Users :
          \/ UpdateStagingNode(u, StageId(u, "n1"), None, None, Some("Self"))
          \/ UpdateStagingNode(u, StageId(u, "n2"), Some("B2"), Some("b"), None)
    \/ \E u \in Users : \E i \in StagedIds(u) : DeleteStagingNode(u, i)
    \/ \E u \in Users : ClearStaging(u)

SpecStaging == Init /\ [][NextStaging]_vars

\* A database file as the healers may find it: new, or written by a version
\* that gave a Vision node another id, or holding a stray Self node.
LegacyTables ==
    {EmptyTable,
     [i \in {"old_vision_x"} |->
         NodeRow("u1", "Vision", "Old vision", "o", EmptyJson, "confirmed",
                 None, ScoreUnset, None)],
     [i \in {"old_self_x"} |->
         NodeRow("u1", "Self", "Me", "", EmptyJson, "confirmed", None,
                 ScoreUnset, None)]}

InitHeal ==
    /\ nodes \in LegacyTables
    /\ edges = {Edge(i, _get_stable_id("P"), "RELATES_TO", "u1") :
                  i \in DOMAIN nodes}
               \cup {Edge(_get_stable_id("P"), i, "SUPPORTS", "u1") :
                       i \in DOMAIN nodes}
    /\ staging_nodes = EmptyTable
    /\ staging_edges = {}
    /\ hash_seed = <<"a", "b">>
    /\ call = NoCall
    /\ nops = 0
    /\ OtherInit

\* The healers and the writers of Self and Vision nodes
NextHeal ==
    \/ \E u \in Users, vd \in VisionData : SyncUserToSelfNode(u, vd)
    \/ \E h \in UuidHex8 : \E i \in {"u1", "old_self_x"} :
          InjectTestData("u1", h, i)
    \/ OpenStore
    \/ \E u \in Users :
          \E o \in Orders(RowsOfType(nodes, u, "Vision")) : SelfHealing(u, o)

SpecHeal == InitHeal /\ [][NextHeal]_vars

\* The handlers of two concurrent tasks, step by step
NextLock ==
    \/ \E t \in Tasks, op \in LockedHandlers \cup UnlockedHandlers, u \in Users :
          \E a \in TaskInputs(op, u) : StartTask(t, op, u, a)
    \/ \E t \in Tasks : AcquireLock(t)
    \/ \E t \in Tasks : BeginWrite(t)
    \/ \E t \in Tasks : BusyTimeout(t)
    \/ \E t \in Tasks : CommitWrite(t)

SpecLock == Init /\ [][NextLock]_vars

\* The texts and configurations the chunker is run on
Chars == {"x", " ", "\n"}

Texts == UNION {[1..n -> Chars] : n \in 0..MaxTextLen}

InitChunk ==
    /\ nodes = EmptyTable
    /\ edges = {}
    /\ staging_nodes = EmptyTable
    /\ staging_edges = {}
    /\ hash_seed = <<"a", "b">>
    /\ call = NoCall
    /\ nops = 0
    /\ TasksInit
    /\ ChatInit
    /\ TrainInit
    /\ StoreInit
    /\ \E text \in Texts, chunk_size \in 1..MaxChunkSize :
          \E chunk_overlap \in 0..chunk_size :
             chunker = EnterChunkText(text, chunk_size, chunk_overlap)

NextChunk == ChunkTextStep

SpecChunk == InitChunk /\ [][NextChunk]_vars

\* The training tasks of the memory API, the event loop running the batch
\* jobs between the requests
JobStep(task_id) ==
    \/ BatchNextFile(task_id)
    \/ IngestFile(task_id)
    \/ \E res \in ChunkResults : PipelineChunk(task_id, res)
    \/ PipelineWrite(task_id)

NextTrain ==
    \/ \E u \in Users, id \in TaskIds, fs \in FilenameLists :
          StartTraining(u, id, fs)
    \/ \E id \in TaskIds : JobStep(id)
    \/ \E u \in Users, vd \in VisionData : ClearMemory(u, vd)
    \/ \E id \in TaskIds : GetTaskStatus(id)

InitTrain == Init /\ hash_seed = <<"a", "b">>

SpecTrain == InitTrain /\ [][NextTrain]_vars

\* The event loop runs every job that can take a step
SpecTrainFair == SpecTrain /\ \A id \in TaskIds : WF_vars(JobStep(id))

\* The training tasks with a client that marks jobs cancelled
NextCancel ==
    \/ \E u \in Users, id \in TaskIds, fs \in FilenameLists :
          StartTraining(u, id, fs)
    \/ \E id \in TaskIds : JobStep(id)
    \/ \E id \in TaskIds : MarkCancelled(id)

SpecCancel == InitTrain /\ [][NextCancel]_vars

\* The chat service: turns of the users, and the event loop running the
\* coroutines the turns scheduled, in any order
ChatInputs ==
    {[message |-> m, full_ai_content |-> "r"] : m \in Messages}
    \cup {[message |-> m, full_ai_content |-> ""] :
             m \in {x \in Messages : _is_informative(x)}}

NextChat ==
    \/ \E u \in Users, i \in ChatInputs :
          GenerateAiResponse(u, i.message, i.full_ai_content)
    \/ \E t \in loop : ProcessChatWriteVector(t)
    \/ \E t \in loop : ProcessChatExtract(t)
    \/ \E t \in loop, content \in Replies, h \in UuidHex8 :
          Evolve(t, content, h)

SpecChat == Init /\ [][NextChat]_vars

\* The writers of the edges table, row by row
NextEdgeRows ==
    \/ \E u \in Users, vd \in VisionData : SyncEdgeRows(u, vd)
    \/ \E u \in Users : \E b \in RelationRowBatches(u) :
          UpsertRelationsBatchRows(u, b)
    \/ \E u \in Users : \E s \in EdgeSources(u), t \in EdgeTargets(u) :
          \E r \in {"RELATES_TO", "SUPPORTS"} : CreateEdgeRow(u, s, t, r)

SpecEdgeRows == Init /\ [][NextEdgeRows]_vars

\* Two users whose extractions name the same entities
NextTenants ==
    \/ \E u \in Users : \E b \in EntityBatches(u) : UpsertEntitiesBatch(u, b)
    \/ \E u \in Users : AddPerson(u, "P", "Mentor", 1)
    \/ \E u \in Users : \E b \in ConceptBatches(u) : AddConceptsBatch(u, b)
    \/ \E u \in Users : \E b \in RelationBatches(u) : UpsertRelationsBatch(u, b)
    \/ \E u \in Users : \E m \in ConceptIds(u) :
          \E sl \in ConceptIds(u) \ {m}, name \in {"", "M"} :
             MergeGraphNodes(u, m, <<sl>>, name)

SpecTenants == Init /\ [][NextTenants]_vars

\* The commit handler of the API and the loaders of the staging area: the
\* service's own GraphStore, and the GraphStore the ETL pipeline opens on the
\* same brain.db, whose mutex is another one
NextCommit ==
    \/ \E t \in Tasks, u \in CommitUsers : CommitSelect(t, u)
    \/ \E t \in Tasks : CommitPromote(t)
    \/ \E u \in CommitUsers : \E d \in ConsolidatedData(u) :
          ServiceAddToStaging(u, d, "f.md")
    \/ \E res \in EtlFiles, run \in EtlRuns : EtlRun(res, run)

SpecCommit == InitTrain /\ [][NextCommit]_vars

\* The store is being constructed on the file it finds; then the handlers
\* write logs
InitEnsure ==
    /\ nodes = EmptyTable
    /\ edges = {}
    /\ staging_nodes = EmptyTable
    /\ staging_edges = {}
    /\ hash_seed = <<"a", "b">>
    /\ call = NoCall
    /\ nops = 0
    /\ lock = None
    /\ db_writer = None
    /\ pc = [t \in Tasks |->
               IF t = "t1"
               THEN [op |-> "__init__", at |-> "init_db", user_id |-> "",
                     args |-> None]
               ELSE TaskIdle]
    /\ chunker = NoChunking
    /\ ChatInit
    /\ TrainInit
    /\ edge_rows = {}
    /\ tables \in Schemas

WriteStep(t) ==
    \/ EnsureAcquire(t)
    \/ EnsureCheck(t)
    \/ InitDb(t)
    \/ WriteLog(t)

NextEnsure ==
    \/ \E t \in Tasks, u \in Users, c \in {"", "c"} : StartWrite(t, u, c)
    \/ \E t \in Tasks : WriteStep(t)
    \/ \E schema \in Schemas \ {AllTables} : DatabaseReplaced(schema)

SpecEnsure == InitEnsure /\ [][NextEnsure]_vars

\* Every thread that can take a step takes it
SpecEnsureFair == SpecEnsure /\ \A t \in Tasks : WF_vars(WriteStep(t))

====
